---- MODULE Spec2Model ----
(***************************************************************************)
(* A model of the serverless backend's handlers and of the relational      *)
(* store and object store they act on.                                     *)
(*                                                                         *)
(*   projects.py     handler / create_or_update_user_project               *)
(*   file_upload.py  handler and its helpers                               *)
(*                                                                         *)
(* SpecSeq   create_project requests served one after another              *)
(* SpecKeys  the same, keeping every returned project_id by identity key   *)
(* SpecRace  two create_project requests interleaved statement by          *)
(*           statement (PostgreSQL READ COMMITTED: a statement sees what   *)
(*           was committed before it ran; a write that hits a unique       *)
(*           index waits for the competing transaction and then fails)     *)
(* SpecFiles file-upload requests served one after another                 *)
(***************************************************************************)
EXTENDS Integers, Sequences, FiniteSets, TLC

VARIABLES
    tables,        \* projects.py create_tables has run (projects, user_details exist)
    projects,      \* committed rows of table projects (their project_id)
    user_details,  \* committed rows of table user_details
    nextId,        \* next fresh uuid4 / SERIAL value
    now,           \* NOW(): a logical clock, one tick per request
    hist,          \* the last two create_project requests served, with their results
    returned,      \* SpecKeys: <<key kind, key, project_id>> of every successful call
    lastSub,       \* the latest subject a call carried, the id it got, and how many
                   \* calls in a row (among those with a subject) carried it
    pc,            \* race: position of each in-flight request
    req,           \* race: the request each process is serving
    existing_user, \* race: existing_user[0] of each process, 0 for None
    result,        \* race: what each process returned
    base,          \* race: what the store held when each request began
    files_table,   \* file_upload.py create_files_table has run (files exists)
    files,         \* committed rows of table files
    objects,       \* keys of the objects the bucket holds
    nextFile,      \* next fresh uuid4 of the file-upload handler
    fevent,        \* the last file-upload request and its response
    dpc,           \* delete: position of each in-flight delete request
    dreq,          \* delete: user_id and file_id of the request of each process
    dmeta,         \* delete: deleted_metadata of each process, <<>> for None
    dres,          \* delete: what each process returned
    s3log,         \* delete: the delete_object calls issued, as <<process, key>>
    pdf_tables,    \* pdf_processor.py create_pdf_processing_table has run
    pdf_processing,    \* committed rows of table pdf_processing
    pdf_conversations, \* committed rows of table pdf_conversations
    nextProc,      \* next fresh uuid4 / SERIAL value of the PDF handler
    pevent,        \* the last PDF request, its response, and the calls it made
    aevent,        \* SpecApi: the event received, and the status it was answered with
    today,         \* SpecKey: datetime.now(), as an index into Days
    afault         \* SpecFault: which services failed during the event

projVars == <<tables, projects, user_details, nextId, now>>
seqVars  == <<hist, returned, lastSub>>
raceVars == <<pc, req, existing_user, result, base>>
fileVars == <<files_table, files, objects, nextFile, fevent>>
delVars  == <<dpc, dreq, dmeta, dres, s3log>>
pdfVars  == <<pdf_tables, pdf_processing, pdf_conversations, nextProc, pevent>>
apiVars  == <<aevent, today, afault>>
vars     == <<projVars, seqVars, raceVars, fileVars, delVars, pdfVars, apiVars>>

----------------------------------------------------------------------------
(* Bounds *)

\* create_project requests served in one behaviour of SpecSeq
MaxCalls == 5
\* create_project requests served in one behaviour of SpecKeys
MaxKeyCalls == 4
\* requests served one at a time in SpecRace before two requests race
MaxWarm == 2
\* upload slots issued in one behaviour of SpecFiles
MaxFiles == 2
\* upload slots issued in one behaviour of SpecDelete
MaxDelFiles == 1
\* characters of a filename in SpecKey
MaxNameLen == 3
\* processing ids issued in one behaviour of SpecPdf
MaxPdf == 1
\* processing ids issued in one behaviour of SpecTerminal
MaxRuns == 2
\* conversation rows stored in one behaviour of SpecPdf
MaxConv == 1

----------------------------------------------------------------------------
(* Values *)

\* Python None / SQL NULL / a JSON field that is absent
Null == "NULL"

Procs == {1, 2}

\* body.get('user_id'), body.get('email'), body.get('cognito_sub')
CreateRequests ==
    [user_id: {"A", "B"}, email: {"E1", "E2"}, cognito_sub: {Null, "S1", "S2"}]
    \cup { [user_id |-> Null, email |-> "E1", cognito_sub |-> Null],
           [user_id |-> "",   email |-> "E1", cognito_sub |-> "S1"],
           [user_id |-> " ",  email |-> "E1", cognito_sub |-> Null],
           [user_id |-> "A",  email |-> Null, cognito_sub |-> "S1"],
           [user_id |-> "A",  email |-> "",   cognito_sub |-> Null],
           [user_id |-> "A",  email |-> " ",  cognito_sub |-> Null] }

\* Python truthiness of an optional string: None and '' are falsy
Truthy(s) == s # Null /\ s # ""

\* str.strip() == '' for the strings of the model
Blank(s) == s \in {"", " "}

----------------------------------------------------------------------------
(* user_details: the queries and statements of create_or_update_user_project *)

\* SELECT ... FROM user_details WHERE cognito_sub = %s
BySub(ud, sub) == {r \in ud : sub # Null /\ r.cognito_sub = sub}

\* SELECT ... FROM user_details WHERE user_id = %s LIMIT 1 (no ORDER BY)
ByUserId(ud, uid) == {r \in ud : r.user_id = uid}

\* SELECT ... FROM user_details WHERE email = %s LIMIT 1 (no ORDER BY)
ByEmail(ud, email) == {r \in ud : r.email = email}

\* SELECT ... WHERE user_id = %s OR email = %s OR cognito_sub = %s LIMIT 1
ByAnyKey(ud, r) ==
    {x \in ud : \/ x.user_id = r.user_id
                \/ x.email = r.email
                \/ (r.cognito_sub # Null /\ x.cognito_sub = r.cognito_sub)}

\* the probes without the fallback by email
Probe_NoEmailFallback(ud, r) ==
    IF Truthy(r.cognito_sub) /\ BySub(ud, r.cognito_sub) # {}
        THEN BySub(ud, r.cognito_sub)
    ELSE ByUserId(ud, r.user_id)

\* the probes with user_id tried before cognito_sub
Probe_UserIdFirst(ud, r) ==
    IF ByUserId(ud, r.user_id) # {} THEN ByUserId(ud, r.user_id)
    ELSE IF Truthy(r.cognito_sub) /\ BySub(ud, r.cognito_sub) # {}
        THEN BySub(ud, r.cognito_sub)
    ELSE ByEmail(ud, r.email)

\* the rows the three probes of lines 70-97 can leave in existing_user, run
\* against one state of the table
Probe(ud, r) ==
    IF Truthy(r.cognito_sub) /\ BySub(ud, r.cognito_sub) # {}
        THEN BySub(ud, r.cognito_sub)
    ELSE IF ByUserId(ud, r.user_id) # {} THEN ByUserId(ud, r.user_id)
    ELSE ByEmail(ud, r.email)

\* the table without its UNIQUE (cognito_sub)
UniqueOK_NoSubjectIndex(ud) ==
    \A x, y \in ud : x.id # y.id =>
        ~(x.user_id = y.user_id /\ x.project_id = y.project_id)

\* UNIQUE (cognito_sub) and UNIQUE (user_id, project_id); NULLs never collide
UniqueOK(ud) ==
    \A x, y \in ud : x.id # y.id =>
        /\ ~(x.cognito_sub # Null /\ x.cognito_sub = y.cognito_sub)
        /\ ~(x.user_id = y.user_id /\ x.project_id = y.project_id)

\* the update with cognito_sub = %s in place of the COALESCE
UpdateMatched_OverwriteSubject(ud, pid, r, t) ==
    { IF x.project_id = pid
        THEN [x EXCEPT !.last_login = t,
                       !.cognito_sub = r.cognito_sub,
                       !.user_id = r.user_id,
                       !.email = r.email]
        ELSE x : x \in ud }

\* the update giving the matched row a project_id of its own choosing
UpdateMatched_NewProject(ud, pid, r, t) ==
    { IF x.project_id = pid
        THEN [x EXCEPT !.last_login = t,
                       !.cognito_sub = IF r.cognito_sub # Null THEN r.cognito_sub ELSE @,
                       !.user_id = r.user_id,
                       !.email = r.email,
                       !.project_id = pid + 1]
        ELSE x : x \in ud }

\* UPDATE user_details SET last_login = NOW(), updated_at = NOW(),
\*   cognito_sub = COALESCE(%s, cognito_sub), user_id = %s, email = %s
\* WHERE project_id = %s
UpdateMatched(ud, pid, r, t) ==
    { IF x.project_id = pid
        THEN [x EXCEPT !.last_login = t,
                       !.cognito_sub = IF r.cognito_sub # Null THEN r.cognito_sub ELSE @,
                       !.user_id = r.user_id,
                       !.email = r.email]
        ELSE x : x \in ud }

\* INSERT INTO user_details (user_id, email, project_id, cognito_sub, last_login)
NewRow(id, r, t) ==
    [id |-> id, user_id |-> r.user_id, email |-> r.email, project_id |-> id,
     cognito_sub |-> r.cognito_sub, last_login |-> t]

InsertNew(ud, id, r, t) == ud \cup {NewRow(id, r, t)}

\* the handler's check of the body: if not user_id or not email -> 400
Rejected(r) == ~Truthy(r.user_id) \/ ~Truthy(r.email)

\* the response envelope: statusCode and the body's project_id, user_id, email
Resp(status, pid, uid, email) ==
    [statusCode |-> status, project_id |-> pid, user_id |-> uid, email |-> email]

NoReq == [user_id |-> Null, email |-> Null, cognito_sub |-> Null]

\* the outcomes of the successive store calls of one request
DbUp == <<TRUE, TRUE>>

\* the request a PDF handler served, the calls it made and its response
PdfEvent(action, user, pid, question, db, ai_calls, statusCode, error, status, answer, conversations) ==
    [action |-> action, user |-> user, processing_id |-> pid,
     question |-> question, db |-> db, ai_calls |-> ai_calls,
     statusCode |-> statusCode, error |-> error, status |-> status,
     answer |-> answer, conversations |-> conversations]

\* no PDF request served yet
NoPdfEvent == PdfEvent(Null, Null, 0, Null, DbUp, 0, 0, Null, Null, Null, {})

\* the relational store, the bucket and the AI service all answer
NoFault == [db |-> TRUE, s3 |-> TRUE, ai |-> TRUE]

\* no event received yet
NoEvent ==
    [handler |-> Null, claims |-> Null, principal |-> Null, header |-> Null,
     body_user |-> Null, action |-> Null, fields |-> {}, statusCode |-> 0,
     projects |-> {}]

Count(S) == Cardinality(S)

----------------------------------------------------------------------------
(* State after deployment: no table exists, nothing is in flight *)

Init ==
    /\ tables = FALSE
    /\ projects = {}
    /\ user_details = {}
    /\ nextId = 1
    /\ now = 0
    /\ hist = <<>>
    /\ returned = {}
    /\ lastSub = [sub |-> Null, project_id |-> 0, calls |-> 0]
    /\ pc = [p \in Procs |-> "idle"]
    /\ req = [p \in Procs |-> NoReq]
    /\ existing_user = [p \in Procs |-> 0]
    /\ result = [p \in Procs |-> Resp(0, 0, Null, Null)]
    /\ base = [p \in Procs |->
                 [race |-> FALSE, t |-> 0, first |-> FALSE, ud |-> 0, proj |-> 0]]
    /\ files_table = FALSE
    /\ files = {}
    /\ objects = {}
    /\ nextFile = 1
    /\ fevent = [action |-> Null, user |-> Null, file_id |-> 0, file_size |-> <<>>,
                 project_id |-> Null,
                 out |-> [statusCode |-> 0, error |-> Null, rows |-> {}]]
    /\ dpc = [p \in Procs |-> "idle"]
    /\ dreq = [p \in Procs |-> [user |-> Null, file_id |-> 0]]
    /\ dmeta = [p \in Procs |-> <<>>]
    /\ dres = [p \in Procs |-> [statusCode |-> 0, error |-> Null, rows |-> {}]]
    /\ s3log = {}
    /\ pdf_tables = FALSE
    /\ pdf_processing = {}
    /\ pdf_conversations = {}
    /\ nextProc = 1
    /\ pevent = NoPdfEvent
    /\ aevent = NoEvent
    /\ today = 1
    /\ afault = NoFault

----------------------------------------------------------------------------
(* create_project served alone: handler lines 262-284 with                 *)
(* create_or_update_user_project lines 62-187 run to completion            *)

\* the keys of an identity, as <<kind, value>>
Keys(r) ==
    {<<"user_id", r.user_id>>, <<"email", r.email>>} \cup
    (IF r.cognito_sub # Null THEN {<<"cognito_sub", r.cognito_sub>>} ELSE {})

\* bookkeeping of a served request: the last two requests and their results
Record(r, out, ud2, proj2) ==
    /\ hist' = LET e == [req |-> r, out |-> out,
                         fresh |-> ByAnyKey(user_details, r) = {},
                         uid_free |-> ByUserId(user_details, r.user_id) = {},
                         ud_new |-> Count(ud2) - Count(user_details),
                         proj_new |-> Count(proj2) - Count(projects)]
               IN  IF hist = <<>> THEN <<e>> ELSE <<hist[Len(hist)], e>>
    /\ lastSub' = IF out.statusCode = 200 /\ r.cognito_sub # Null
                    THEN [sub |-> r.cognito_sub, project_id |-> out.project_id,
                          calls |-> IF lastSub.sub = r.cognito_sub
                                      THEN lastSub.calls + 1 ELSE 1]
                    ELSE lastSub

\* if not user_id or not email: 400, before any connection is opened
CreateRejected(r) ==
    /\ now < MaxCalls
    /\ Rejected(r)
    /\ now' = now + 1
    /\ Record(r, Resp(400, 0, Null, Null), user_details, projects)
    /\ UNCHANGED <<tables, projects, user_details, nextId, raceVars, fileVars, delVars, pdfVars, apiVars>>

\* a probe matched: lines 99-117
CreateMatched(r) ==
    /\ now < MaxCalls
    /\ ~Rejected(r)
    /\ Probe(user_details, r) # {}
    /\ \E x \in Probe(user_details, r) :
         LET ud2 == UpdateMatched(user_details, x.project_id, r, now + 1)
             ok  == UniqueOK(ud2)
             out == IF ok THEN Resp(200, x.project_id, r.user_id, r.email)
                          ELSE Resp(500, 0, Null, Null)
         IN  /\ user_details' = IF ok THEN ud2 ELSE user_details
             /\ Record(r, out, IF ok THEN ud2 ELSE user_details, projects)
    /\ tables' = TRUE
    /\ now' = now + 1
    /\ UNCHANGED <<projects, nextId, raceVars, fileVars, delVars, pdfVars, apiVars>>

\* no probe matched: lines 119-181
CreateNew(r) ==
    /\ now < MaxCalls
    /\ ~Rejected(r)
    /\ Probe(user_details, r) = {}
    /\ LET ud2 == InsertNew(user_details, nextId, r, now + 1)
           ok  == UniqueOK(ud2)
           again == ByAnyKey(user_details, r)
       IN  IF ok
             THEN /\ user_details' = ud2
                  /\ projects' = projects \cup {nextId}
                  /\ Record(r, Resp(200, nextId, r.user_id, r.email),
                            ud2, projects \cup {nextId})
             ELSE /\ UNCHANGED <<user_details, projects>>
                  /\ IF again = {}
                       THEN Record(r, Resp(500, 0, Null, Null), user_details, projects)
                       ELSE \E e \in again :
                              Record(r, Resp(200, e.project_id, e.user_id, e.email),
                                     user_details, projects)
    /\ tables' = TRUE
    /\ nextId' = nextId + 1
    /\ now' = now + 1
    /\ UNCHANGED <<raceVars, fileVars, delVars, pdfVars, apiVars>>

NextSeq ==
    \E r \in CreateRequests :
        \/ CreateRejected(r) /\ UNCHANGED returned
        \/ CreateMatched(r) /\ UNCHANGED returned
        \/ CreateNew(r) /\ UNCHANGED returned

SpecSeq == Init /\ [][NextSeq]_vars

\* the same requests, with every returned project_id kept under the keys of
\* the identity that got it
Track ==
    LET e == hist'[Len(hist')]
    IN  returned' = IF e.out.statusCode = 200
                      THEN returned \cup
                           {<<k[1], k[2], e.out.project_id>> : k \in Keys(e.req)}
                      ELSE returned

NextKeys ==
    \E r \in CreateRequests :
        \/ now < MaxKeyCalls /\ CreateRejected(r) /\ Track
        \/ now < MaxKeyCalls /\ CreateMatched(r) /\ Track
        \/ now < MaxKeyCalls /\ CreateNew(r) /\ Track

SpecKeys == Init /\ [][NextKeys]_vars

----------------------------------------------------------------------------
(* create_project requests racing: one action per statement of             *)
(* create_or_update_user_project.  A SELECT reads what is committed when   *)
(* it runs.  UPDATE and INSERT are taken together with the commit that     *)
(* follows them: a statement that collides on a unique index with an       *)
(* uncommitted row waits for that transaction to commit and then fails,    *)
(* which is the outcome of running after it.                               *)

RaceRequests ==
    [user_id: {"A", "B"}, email: {"E1", "E2"}, cognito_sub: {Null, "S1"}]
    \cup { [user_id |-> "", email |-> "E1", cognito_sub |-> Null] }

Goto(p, label) == pc' = [pc EXCEPT ![p] = label]

Return(p, out) == /\ result' = [result EXCEPT ![p] = out]
                  /\ Goto(p, "idle")

\* a request of the warm-up is served alone; then each process serves one
\* request, the two of them concurrently
MayBegin(p, race) ==
    /\ pc[p] = "idle"
    /\ IF race
         THEN /\ ~base[p].race
              /\ \A q \in Procs : pc[q] = "idle" \/ base[q].race
         ELSE /\ now < MaxWarm
              /\ \A q \in Procs : pc[q] = "idle" /\ ~base[q].race

\* handler lines 257-278, create_tables (line 66)
Begin(p, r, race) ==
    /\ MayBegin(p, race)
    /\ req' = [req EXCEPT ![p] = r]
    /\ now' = now + 1
    /\ existing_user' = [existing_user EXCEPT ![p] = 0]
    /\ base' = [base EXCEPT ![p] =
                  [race |-> race, t |-> now + 1,
                   first |-> ByAnyKey(user_details, r) = {},
                   ud |-> Count(user_details), proj |-> Count(projects)]]
    /\ IF Rejected(r)
         THEN /\ Return(p, Resp(400, 0, Null, Null))
              /\ UNCHANGED tables
         ELSE /\ result' = [result EXCEPT ![p] = Resp(0, 0, Null, Null)]
              /\ Goto(p, "probe_sub")
              /\ tables' = TRUE
    /\ UNCHANGED <<projects, user_details, nextId, seqVars, fileVars, delVars, pdfVars, apiVars>>

\* fetchone() of a probe: one of the matching rows, or None
Fetch(p, rows, miss) ==
    /\ IF rows = {}
         THEN /\ Goto(p, miss)
              /\ UNCHANGED existing_user
         ELSE /\ \E x \in rows :
                   existing_user' = [existing_user EXCEPT ![p] = x.project_id]
              /\ Goto(p, "update")
    /\ UNCHANGED <<projVars, seqVars, req, result, base, fileVars, delVars, pdfVars, apiVars>>

\* lines 73-79
ProbeSub(p) ==
    /\ pc[p] = "probe_sub"
    /\ Fetch(p, IF Truthy(req[p].cognito_sub)
                   THEN BySub(user_details, req[p].cognito_sub) ELSE {},
              "probe_user_id")

\* lines 82-88
ProbeUserId(p) ==
    /\ pc[p] = "probe_user_id"
    /\ Fetch(p, ByUserId(user_details, req[p].user_id), "probe_email")

\* lines 91-97
ProbeEmail(p) ==
    /\ pc[p] = "probe_email"
    /\ Fetch(p, ByEmail(user_details, req[p].email), "insert")

\* lines 99-117; a unique violation leaves through line 183 and the
\* handler's except clause (lines 321-333)
Update(p) ==
    /\ pc[p] = "update"
    /\ LET ud2 == UpdateMatched(user_details, existing_user[p], req[p], base[p].t)
       IN  IF UniqueOK(ud2)
             THEN /\ user_details' = ud2
                  /\ Return(p, Resp(200, existing_user[p], req[p].user_id, req[p].email))
             ELSE /\ UNCHANGED user_details
                  /\ Return(p, Resp(500, 0, Null, Null))
    /\ UNCHANGED <<tables, projects, nextId, now, seqVars, req, existing_user, base, fileVars, delVars, pdfVars, apiVars>>

\* the insert whose Project row outlives the failure of the second INSERT
Insert_KeepsProject(p) ==
    /\ pc[p] = "insert"
    /\ LET ud2 == InsertNew(user_details, nextId, req[p], base[p].t)
       IN  IF UniqueOK(ud2)
             THEN /\ user_details' = ud2
                  /\ projects' = projects \cup {nextId}
                  /\ Return(p, Resp(200, nextId, req[p].user_id, req[p].email))
             ELSE /\ projects' = projects \cup {nextId}
                  /\ UNCHANGED <<user_details, result>>
                  /\ Goto(p, "retry")
    /\ nextId' = nextId + 1
    /\ UNCHANGED <<tables, now, seqVars, req, existing_user, base, fileVars, delVars, pdfVars, apiVars>>

\* lines 119-160: both INSERTs and the commit, or the rollback
Insert(p) ==
    /\ pc[p] = "insert"
    /\ LET ud2 == InsertNew(user_details, nextId, req[p], base[p].t)
       IN  IF UniqueOK(ud2)
             THEN /\ user_details' = ud2
                  /\ projects' = projects \cup {nextId}
                  /\ Return(p, Resp(200, nextId, req[p].user_id, req[p].email))
             ELSE /\ UNCHANGED <<user_details, projects, result>>
                  /\ Goto(p, "retry")
    /\ nextId' = nextId + 1
    /\ UNCHANGED <<tables, now, seqVars, req, existing_user, base, fileVars, delVars, pdfVars, apiVars>>

\* lines 119-160 when an INSERT raises for another reason than a conflict
\* (the except of line 157 catches every exception): rollback, then the
\* probe of lines 162-181
InsertFails(p) ==
    /\ pc[p] = "insert"
    /\ Goto(p, "retry")
    /\ nextId' = nextId + 1
    /\ UNCHANGED <<user_details, projects, result>>
    /\ UNCHANGED <<tables, now, seqVars, req, existing_user, base, fileVars, delVars, pdfVars, apiVars>>

\* a retry that answers with a project_id of its own when it finds no row
Retry_Fabricates(p) ==
    /\ pc[p] = "retry"
    /\ LET again == ByAnyKey(user_details, req[p])
       IN  IF again = {}
             THEN Return(p, Resp(200, nextId, req[p].user_id, req[p].email))
             ELSE \E e \in again :
                    Return(p, Resp(200, e.project_id, e.user_id, e.email))
    /\ UNCHANGED <<projVars, seqVars, req, existing_user, base, fileVars, delVars, pdfVars, apiVars>>

\* lines 162-181
Retry(p) ==
    /\ pc[p] = "retry"
    /\ LET again == ByAnyKey(user_details, req[p])
       IN  IF again = {}
             THEN Return(p, Resp(500, 0, Null, Null))
             ELSE \E e \in again :
                    Return(p, Resp(200, e.project_id, e.user_id, e.email))
    /\ UNCHANGED <<projVars, seqVars, req, existing_user, base, fileVars, delVars, pdfVars, apiVars>>

NextRace ==
    \E p \in Procs :
        \/ \E r \in RaceRequests, race \in BOOLEAN : Begin(p, r, race)
        \/ ProbeSub(p)
        \/ ProbeUserId(p)
        \/ ProbeEmail(p)
        \/ Update(p)
        \/ Insert(p)
        \/ Retry(p)

SpecRace == Init /\ [][NextRace]_vars

\* the same requests, the INSERT of a request failing at will
NextRetry ==
    \E p \in Procs :
        \/ \E r \in RaceRequests, race \in BOOLEAN : Begin(p, r, race)
        \/ ProbeSub(p)
        \/ ProbeUserId(p)
        \/ ProbeEmail(p)
        \/ Update(p)
        \/ Insert(p)
        \/ InsertFails(p)
        \/ Retry(p)

SpecRetry == Init /\ [][NextRetry]_vars

----------------------------------------------------------------------------
(* file_upload.py: the file registry.  A request is served alone; every    *)
(* helper opens its own connection and commits before it returns.          *)

\* the callers extract_user_info can resolve, and Null for none
Callers == {Null, "u1", "u2"}

\* body.get('filename'): a string as the sequence of its characters
Filenames == { <<"a", " ", "/", "b">> }

\* datetime.now().strftime('%Y/%m/%d')
Dates == { <<"2024", "/", "03", "/", "05">> }

\* body.get('file_size'): <<>> for an absent field, <<n>> for the number n
Sizes == { <<>>, <<0>>, <<7>> }

\* body.get('file_id'): 0 for an absent field; MaxFiles + 1 is never issued
FileIds == 0 .. (MaxFiles + 1)

\* the days the clock of SpecKey passes through
Days == << [y |-> 2024, m |-> 3, d |-> 5],
           [y |-> 2024, m |-> 12, d |-> 31],
           [y |-> 2025, m |-> 1, d |-> 1] >>

Digit(n) == <<"0", "1", "2", "3", "4", "5", "6", "7", "8", "9">>[n + 1]

\* %Y, %m, %d: the number n in w decimal digits, zero-padded
RECURSIVE Pad(_, _)
Pad(n, w) == IF w = 0 THEN <<>> ELSE Pad(n \div 10, w - 1) \o <<Digit(n % 10)>>

\* datetime.now().strftime('%Y/%m/%d'), character by character
Strftime(day) ==
    Pad(day.y, 4) \o <<"/">> \o Pad(day.m, 2) \o <<"/">> \o Pad(day.d, 2)

\* the characters of the filenames of SpecKey
NameChars == {"r", ".", " ", "/", "\\"}

\* body.get('filename') in SpecKey: every string of 1 .. MaxNameLen characters
KeyNames == UNION {[1 .. n -> NameChars] : n \in 1 .. MaxNameLen}

\* the sanitizing that replaces spaces only
Sanitize_SpacesOnly(name) ==
    [i \in 1 .. Len(name) |-> IF name[i] = " " THEN "_" ELSE name[i]]

\* original_filename.replace(' ', '_').replace('/', '_')
Sanitize(name) ==
    [i \in 1 .. Len(name) |-> IF name[i] \in {" ", "/"} THEN "_" ELSE name[i]]

\* str(uuid.uuid4()): the text of a file_id
Uuid(fid) == ToString(fid)

\* f"{user_id}/{timestamp}/{file_id}_{safe_filename}"
S3Key(user, date, fid, name) ==
    <<user, "/">> \o date \o <<"/", Uuid(fid), "_">> \o Sanitize(name)

\* the response envelope of the file handler
FileOut(status, error, rows) ==
    [statusCode |-> status, error |-> error, rows |-> rows]

Unauthorized == FileOut(401, "Unauthorized", {})
MissingField == FileOut(400, "Missing required fields", {})
FileNotFound == FileOut(404, "File not found", {})
FileNotReady == FileOut(400, "File not ready", {})
InvalidAction == FileOut(400, "Invalid action", {})
ServerError == FileOut(500, "Internal Server Error", {})
DeleteFailed == FileOut(500, "Delete operation failed", {})

\* body.get('project_id') of an upload, and of a list ('' is falsy)
UploadProjects == {Null, "p1"}
ListProjects == {Null, "", "p1", "p2"}

\* the listing without its WHERE user_id = %s
list_files_AnyOwner(user_id, project_id) ==
    IF Truthy(project_id)
      THEN {f \in files : f.project_id = project_id}
      ELSE files

\* if project_id: SELECT ... WHERE user_id = %s AND project_id = %s
\* else:          SELECT ... WHERE user_id = %s
list_files(user_id, project_id) ==
    IF Truthy(project_id)
      THEN {f \in files : f.user_id = user_id /\ f.project_id = project_id}
      ELSE {f \in files : f.user_id = user_id}

\* the columns a listing selects (lines 143-153)
ListRow(f) ==
    [file_id |-> f.file_id, original_filename |-> f.original_filename,
     file_size |-> f.file_size, upload_status |-> f.upload_status,
     processing_status |-> f.processing_status]

\* the query without its AND user_id = %s
get_file_metadata_AnyOwner(file_id, user_id) ==
    {f \in files : f.file_id = file_id}

\* SELECT ... FROM files WHERE file_id = %s AND user_id = %s
get_file_metadata(file_id, user_id) ==
    {f \in files : f.file_id = file_id /\ f.user_id = user_id}

\* the update writing file_size also when none was given
update_file_status_ResetSize(file_id, user_id, file_size) ==
    [rows |-> { IF f.file_id = file_id /\ f.user_id = user_id
                  THEN [f EXCEPT !.file_size =
                                     IF file_size # <<>> THEN file_size[1] ELSE 0,
                                 !.upload_status = "uploaded"]
                  ELSE f : f \in files },
     success |-> \E f \in files : f.file_id = file_id /\ f.user_id = user_id]

\* UPDATE files SET [file_size = %s,] upload_status = %s, updated_at = ...
\* WHERE file_id = %s AND user_id = %s RETURNING id
\* rows: the table afterwards; success: result is not None
update_file_status(file_id, user_id, file_size) ==
    [rows |-> { IF f.file_id = file_id /\ f.user_id = user_id
                  THEN [f EXCEPT !.file_size =
                                     IF file_size # <<>> THEN file_size[1] ELSE @,
                                 !.upload_status = "uploaded"]
                  ELSE f : f \in files },
     success |-> \E f \in files : f.file_id = file_id /\ f.user_id = user_id]

\* the DELETE counting the row and leaving it in the table
delete_file_metadata_KeepsRow(file_id, user_id) ==
    [rows |-> files,
     deleted |-> {f \in files : f.file_id = file_id /\ f.user_id = user_id}]

\* SELECT s3_key ... WHERE file_id = %s AND user_id = %s, then
\* DELETE FROM files WHERE file_id = %s AND user_id = %s
\* rows: the table afterwards; deleted: the rows the caller owned
delete_file_metadata(file_id, user_id) ==
    [rows |-> {f \in files : ~(f.file_id = file_id /\ f.user_id = user_id)},
     deleted |-> {f \in files : f.file_id = file_id /\ f.user_id = user_id}]

\* the request served and its response; project_id is the filter of a list
AnswerList(action, user, file_id, file_size, project_id, out) ==
    fevent' = [action |-> action, user |-> user, file_id |-> file_id,
               file_size |-> file_size, project_id |-> project_id, out |-> out]

Answer(action, user, file_id, file_size, out) ==
    AnswerList(action, user, file_id, file_size, Null, out)

\* lines 396-408: no resolvable caller
FileUnauthorized(action) ==
    /\ Answer(action, Null, 0, <<>>, Unauthorized)
    /\ UNCHANGED <<files_table, files, objects, nextFile>>

\* lines 412-472: action 'upload'
FileUpload(user, name, date, project_id) ==
    /\ user # Null
    /\ IF name = <<>>
         THEN /\ Answer("upload", user, 0, <<>>, MissingField)
              /\ UNCHANGED <<files_table, files, nextFile>>
         ELSE /\ nextFile <= MaxFiles
              /\ LET row == [file_id |-> nextFile,
                             original_filename |-> name,
                             s3_key |-> S3Key(user, date, nextFile, name),
                             file_size |-> 0,
                             project_id |-> project_id,
                             user_id |-> user,
                             upload_status |-> "pending",
                             processing_status |-> "pending"]
                 IN  /\ files' = files \cup {row}
                     /\ Answer("upload", user, nextFile, <<>>, FileOut(200, Null, {row}))
              /\ files_table' = TRUE
              /\ nextFile' = nextFile + 1
    /\ UNCHANGED objects

\* the client PUTs the bytes to a signed upload URL it was given
ClientPut(f) ==
    /\ f \in files
    /\ f.s3_key \notin objects
    /\ objects' = objects \cup {f.s3_key}
    /\ Answer("put", f.user_id, f.file_id, <<>>, FileOut(200, Null, {}))
    /\ UNCHANGED <<files_table, files, nextFile>>

\* lines 474-518: action 'confirm'
FileConfirm(user, file_id, file_size) ==
    /\ user # Null
    /\ LET upd == update_file_status(file_id, user, file_size)
           out == IF file_id = 0 THEN MissingField
                  ELSE IF ~files_table THEN ServerError
                  ELSE IF ~upd.success THEN FileNotFound
                  ELSE FileOut(200, Null,
                         {f \in upd.rows : f.file_id = file_id /\ f.user_id = user})
       IN  /\ files' = IF out.statusCode = 200 THEN upd.rows ELSE files
           /\ Answer("confirm", user, file_id, file_size, out)
    /\ UNCHANGED <<files_table, objects, nextFile>>

\* the get without the check of file_id
FileGet_NoFieldCheck(user, file_id) ==
    /\ user # Null
    /\ Answer("get", user, file_id, <<>>,
              IF ~files_table THEN ServerError
              ELSE IF get_file_metadata(file_id, user) = {} THEN FileNotFound
              ELSE FileOut(200, Null, get_file_metadata(file_id, user)))
    /\ UNCHANGED <<files_table, files, objects, nextFile>>

\* lines 520-550: action 'get'
FileGet(user, file_id) ==
    /\ user # Null
    /\ Answer("get", user, file_id, <<>>,
              IF file_id = 0 THEN MissingField
              ELSE IF ~files_table THEN ServerError
              ELSE IF get_file_metadata(file_id, user) = {} THEN FileNotFound
              ELSE FileOut(200, Null, get_file_metadata(file_id, user)))
    /\ UNCHANGED <<files_table, files, objects, nextFile>>

\* the download without the check of upload_status
FileDownload_NoGate(user, file_id) ==
    /\ user # Null
    /\ Answer("download", user, file_id, <<>>,
              IF file_id = 0 THEN MissingField
              ELSE IF ~files_table THEN ServerError
              ELSE IF get_file_metadata(file_id, user) = {} THEN FileNotFound
              ELSE FileOut(200, Null, get_file_metadata(file_id, user)))
    /\ UNCHANGED <<files_table, files, objects, nextFile>>

\* lines 565-622: action 'download'; the rows of a 200 are those whose
\* s3_key a download URL was signed for
FileDownload(user, file_id) ==
    /\ user # Null
    /\ Answer("download", user, file_id, <<>>,
              IF file_id = 0 THEN MissingField
              ELSE IF ~files_table THEN ServerError
              ELSE IF get_file_metadata(file_id, user) = {} THEN FileNotFound
              ELSE IF \E f \in get_file_metadata(file_id, user) :
                         f.upload_status # "uploaded" THEN FileNotReady
              ELSE FileOut(200, Null, get_file_metadata(file_id, user)))
    /\ UNCHANGED <<files_table, files, objects, nextFile>>

\* lines 624-681: action 'delete'
FileDelete(user, file_id) ==
    /\ user # Null
    /\ LET del == delete_file_metadata(file_id, user)
           out == IF file_id = 0 THEN MissingField
                  ELSE IF ~files_table THEN DeleteFailed
                  ELSE IF del.deleted = {} THEN FileNotFound
                  ELSE FileOut(200, Null, del.deleted)
       IN  /\ files' = IF out.statusCode = 200 THEN del.rows ELSE files
           /\ objects' = IF out.statusCode = 200
                            THEN objects \ {f.s3_key : f \in del.deleted}
                            ELSE objects
           /\ Answer("delete", user, file_id, <<>>, out)
    /\ UNCHANGED <<files_table, nextFile>>

\* lines 552-563: action 'list'
FileList(user, project_id) ==
    /\ user # Null
    /\ AnswerList("list", user, 0, <<>>, project_id,
                  IF ~files_table THEN ServerError
                  ELSE FileOut(200, Null,
                               {ListRow(f) : f \in list_files(user, project_id)}))
    /\ UNCHANGED <<files_table, files, objects, nextFile>>

\* lines 683-691: any other action
FileInvalidAction(user) ==
    /\ user # Null
    /\ Answer("other", user, 0, <<>>, InvalidAction)
    /\ UNCHANGED <<files_table, files, objects, nextFile>>

\* the requests of the file registry.  A request answered before the store
\* is read (401, no filename, no file_id, unknown action) neither reads nor
\* writes it: such requests are served on the fresh store only.
NextFiles ==
    \/ \E a \in {"upload", "confirm", "get", "download", "delete", "other"} :
          /\ nextFile = 1
          /\ FileUnauthorized(a) /\ UNCHANGED <<projVars, seqVars, raceVars, delVars, pdfVars, apiVars>>
    \/ \E u \in Callers, n \in Filenames \cup {<<>>}, d \in Dates :
          /\ n = <<>> => nextFile = 1
          /\ FileUpload(u, n, d, Null) /\ UNCHANGED <<projVars, seqVars, raceVars, delVars, pdfVars, apiVars>>
    \/ \E f \in files :
          ClientPut(f) /\ UNCHANGED <<projVars, seqVars, raceVars, delVars, pdfVars, apiVars>>
    \/ \E u \in Callers, i \in FileIds, z \in Sizes :
          /\ i = 0 => nextFile = 1
          /\ i \notin 1 .. MaxFiles => z = <<>>
          /\ FileConfirm(u, i, z) /\ UNCHANGED <<projVars, seqVars, raceVars, delVars, pdfVars, apiVars>>
    \/ \E u \in Callers, i \in FileIds :
          /\ i = 0 => nextFile = 1
          /\ FileGet(u, i) /\ UNCHANGED <<projVars, seqVars, raceVars, delVars, pdfVars, apiVars>>
    \/ \E u \in Callers, i \in FileIds :
          /\ i = 0 => nextFile = 1
          /\ FileDownload(u, i) /\ UNCHANGED <<projVars, seqVars, raceVars, delVars, pdfVars, apiVars>>
    \/ \E u \in Callers, i \in FileIds :
          /\ i = 0 => nextFile = 1
          /\ FileDelete(u, i) /\ UNCHANGED <<projVars, seqVars, raceVars, delVars, pdfVars, apiVars>>
    \/ \E u \in Callers :
          /\ nextFile = 1
          /\ FileInvalidAction(u) /\ UNCHANGED <<projVars, seqVars, raceVars, delVars, pdfVars, apiVars>>

SpecFiles == Init /\ [][NextFiles]_vars

\* body.get('file_size') of a confirm: any JSON number, one below zero included
ConfirmSizes == Sizes \cup { <<-5>> }

\* uploads, the clients' PUTs and confirms carrying any size
NextSize ==
    \/ \E u \in Callers, n \in Filenames, d \in Dates :
          FileUpload(u, n, d, Null)
          /\ UNCHANGED <<projVars, seqVars, raceVars, delVars, pdfVars, apiVars>>
    \/ \E f \in files :
          ClientPut(f) /\ UNCHANGED <<projVars, seqVars, raceVars, delVars, pdfVars, apiVars>>
    \/ \E u \in Callers, i \in FileIds, z \in ConfirmSizes :
          FileConfirm(u, i, z)
          /\ UNCHANGED <<projVars, seqVars, raceVars, delVars, pdfVars, apiVars>>

SpecSize == Init /\ [][NextSize]_vars

\* one upload per behaviour, of any filename, on any of the days
NextKey ==
    \/ \E u \in Callers, n \in KeyNames :
          /\ files = {}
          /\ FileUpload(u, n, Strftime(Days[today]), Null)
          /\ UNCHANGED <<projVars, seqVars, raceVars, delVars, pdfVars, apiVars>>
    \/ /\ today < Len(Days)
       /\ today' = today + 1
       /\ UNCHANGED <<projVars, seqVars, raceVars, delVars, pdfVars, fileVars,
                      aevent, afault>>

SpecKey == Init /\ [][NextKey]_vars

\* uploads into projects, confirms, deletes and listings
NextList ==
    \/ \E u \in Callers, n \in Filenames, d \in Dates, p \in UploadProjects :
          FileUpload(u, n, d, p)
          /\ UNCHANGED <<projVars, seqVars, raceVars, delVars, pdfVars, apiVars>>
    \/ \E u \in Callers, i \in FileIds :
          FileConfirm(u, i, <<>>)
          /\ UNCHANGED <<projVars, seqVars, raceVars, delVars, pdfVars, apiVars>>
    \/ \E u \in Callers, i \in FileIds :
          FileDelete(u, i)
          /\ UNCHANGED <<projVars, seqVars, raceVars, delVars, pdfVars, apiVars>>
    \/ \E u \in Callers, p \in ListProjects :
          FileList(u, p)
          /\ UNCHANGED <<projVars, seqVars, raceVars, delVars, pdfVars, apiVars>>

SpecList == Init /\ [][NextList]_vars

----------------------------------------------------------------------------
(* pdf_processor.py: the PDF session registry.  A request is served alone. *)
(* The AI service answers or fails; each call to the relational store      *)
(* succeeds or raises (db[1] the first call of the request, db[2] the      *)
(* second).                                                                *)

\* body.get('signed_url'): absent, empty, a URL, or an object key
SignedUrls == {Null, "", "http://s", "key"}

\* a signed_url that is a JSON number: truthy, and without startswith
JsonNumber == "json:123"

\* signed_url.startswith('http')
StartsWithHttp(url) == url = "http://s"

\* body.get('question')
Questions == {Null, "", "q1"}

\* body.get('processing_id'): 0 for an absent field; MaxPdf + 1 is never issued
ProcIds == 0 .. (MaxPdf + 1)

\* what process_pdf_with_gemini_rest returns, and how many generateContent
\* requests it sent: none when the API key is missing, one when the upload
\* method answers or when the upload fails before its request, two when
\* the request of the upload method fails and the fallback sends its own
AiResults ==
    { [status |-> "success", calls |-> 1],
      [status |-> "success", calls |-> 2],
      [status |-> "error", calls |-> 0],
      [status |-> "error", calls |-> 1],
      [status |-> "error", calls |-> 2] }

\* the outcomes of the store calls of a request
DbOutcomes == [1 .. 2 -> BOOLEAN]

AiAnswers == [status |-> "success", calls |-> 1]

\* the runs of a valid process_pdf request: the URL or key it carries, the
\* outcome of generate_public_s3_url, of the AI service and of the store
\* calls; an outcome that is never consulted is left at its first value
ProcessRuns ==
    {r \in [url : {"http://s", "key", JsonNumber}, presign_ok : BOOLEAN,
             ai : AiResults, db : DbOutcomes] :
        LET raised == ~StartsWithHttp(r.url) /\ ~r.presign_ok
        IN  /\ StartsWithHttp(r.url) => r.presign_ok
            /\ r.url = JsonNumber => ~r.presign_ok
            /\ raised => (r.ai = AiAnswers /\ r.db[1])
            /\ (~raised /\ r.db[1]) => r.db[2]}

\* the runs of a valid ask_question request
AskRuns ==
    {r \in [ai : AiResults, db : DbOutcomes] :
        /\ ~r.db[1] => (r.ai = AiAnswers /\ r.db[2])
        /\ r.ai.status = "error" => r.db[2]}

\* save_pdf_processing_record(processing_id, file_id, user_id, pdf_url,
\* pdf_summary=None, status='pending'): INSERT ... ON CONFLICT (processing_id)
\* DO UPDATE SET pdf_url, pdf_summary, processing_status
save_pdf_processing_record(rows, pid, file_id, user_id, pdf_url, pdf_summary, status) ==
    IF \E r \in rows : r.processing_id = pid
      THEN { IF r.processing_id = pid
               THEN [r EXCEPT !.pdf_url = pdf_url, !.pdf_summary = pdf_summary,
                              !.processing_status = status]
               ELSE r : r \in rows }
      ELSE rows \cup {[processing_id |-> pid, file_id |-> file_id,
                        user_id |-> user_id, pdf_url |-> pdf_url,
                        pdf_summary |-> pdf_summary, processing_status |-> status]}

\* the lookup without its AND user_id = %s
get_processing_record_AnyOwner(processing_id, user_id) ==
    {r \in pdf_processing : r.processing_id = processing_id}

\* SELECT ... FROM pdf_processing WHERE processing_id = %s AND user_id = %s
get_processing_record(processing_id, user_id) ==
    {r \in pdf_processing : r.processing_id = processing_id /\ r.user_id = user_id}

\* SELECT question, answer, timestamp FROM pdf_conversations
\* WHERE processing_id = %s
get_conversation_history(processing_id) ==
    {[question |-> c.question, answer |-> c.answer] :
        c \in {x \in pdf_conversations : x.processing_id = processing_id}}

\* lines 381-391: no resolvable caller
PdfUnauthorized(action) ==
    /\ pevent' = PdfEvent(action, Null, 0, Null, DbUp, 0, 401, "Unauthorized",
                          Null, Null, {})
    /\ UNCHANGED <<pdf_tables, pdf_processing, pdf_conversations, nextProc>>

\* process_pdf storing every record under the first processing id
PdfProcessUpTo_ReusesId(limit, user, file_id, signed_url, presign_ok, ai, db) ==
    /\ user # Null
    /\ IF file_id = 0 \/ ~Truthy(signed_url)
         THEN /\ pevent' = PdfEvent("process_pdf", user, 0, Null, db, 0, 400,
                                    "Missing required fields", Null, Null, {})
              /\ UNCHANGED <<pdf_tables, pdf_processing, nextProc>>
         ELSE /\ nextProc <= limit
              /\ LET pid == 1
                     raised == ~StartsWithHttp(signed_url) /\ ~presign_ok
                     ai_calls == IF raised THEN 0 ELSE ai.calls
                     ok == ~raised /\ ai.status = "success"
                     saved == ~raised /\ db[1]
                     pdf_url == IF StartsWithHttp(signed_url)
                                  THEN signed_url ELSE "http://s"
                     rows1 == save_pdf_processing_record(pdf_processing, pid,
                                file_id, user, pdf_url,
                                IF ok THEN "summary" ELSE Null,
                                IF ok THEN "completed" ELSE "failed")
                     rows2 == save_pdf_processing_record(pdf_processing, pid,
                                file_id, user, "", "failed", "pending")
                 IN  /\ pdf_processing' = IF saved THEN rows1
                                          ELSE IF db[2] THEN rows2
                                          ELSE pdf_processing
                     /\ pdf_tables' = (pdf_tables \/ saved \/ db[2])
                     /\ pevent' =
                          IF saved /\ ok
                            THEN PdfEvent("process_pdf", user, pid, Null, db, ai_calls,
                                          200, Null, "completed", "summary", {})
                          ELSE IF saved \/ db[2]
                            THEN PdfEvent("process_pdf", user, pid, Null, db, ai_calls,
                                          500, "PDF processing failed", "failed", Null, {})
                          ELSE PdfEvent("process_pdf", user, pid, Null, db, ai_calls,
                                        500, "Internal server error", Null, Null, {})
              /\ nextProc' = nextProc + 1
    /\ UNCHANGED pdf_conversations

\* lines 399-478: action 'process_pdf'.  raised: signed_url.startswith
\* raised (line 419, signed_url not a string; presign_ok is FALSE then) or
\* generate_public_s3_url raised (line 424); when it returns, it returns a
\* URL.  rows1: the save of line 431 or 452.  rows2: the save
\* of the except clause (line 467), whose fifth positional argument
\* 'failed' is pdf_summary, the status keeping its default 'pending'.  When
\* that save raises too the handler's outer except answers (lines 605-614).
PdfProcessUpTo(limit, user, file_id, signed_url, presign_ok, ai, db) ==
    /\ user # Null
    /\ IF file_id = 0 \/ ~Truthy(signed_url)
         THEN /\ pevent' = PdfEvent("process_pdf", user, 0, Null, db, 0, 400,
                                    "Missing required fields", Null, Null, {})
              /\ UNCHANGED <<pdf_tables, pdf_processing, nextProc>>
         ELSE /\ nextProc <= limit
              /\ LET pid == nextProc
                     raised == ~StartsWithHttp(signed_url) /\ ~presign_ok
                     ai_calls == IF raised THEN 0 ELSE ai.calls
                     ok == ~raised /\ ai.status = "success"
                     saved == ~raised /\ db[1]
                     pdf_url == IF StartsWithHttp(signed_url)
                                  THEN signed_url ELSE "http://s"
                     rows1 == save_pdf_processing_record(pdf_processing, pid,
                                file_id, user, pdf_url,
                                IF ok THEN "summary" ELSE Null,
                                IF ok THEN "completed" ELSE "failed")
                     rows2 == save_pdf_processing_record(pdf_processing, pid,
                                file_id, user, "", "failed", "pending")
                 IN  /\ pdf_processing' = IF saved THEN rows1
                                          ELSE IF db[2] THEN rows2
                                          ELSE pdf_processing
                     /\ pdf_tables' = (pdf_tables \/ saved \/ db[2])
                     /\ pevent' =
                          IF saved /\ ok
                            THEN PdfEvent("process_pdf", user, pid, Null, db, ai_calls,
                                          200, Null, "completed", "summary", {})
                          ELSE IF saved \/ db[2]
                            THEN PdfEvent("process_pdf", user, pid, Null, db, ai_calls,
                                          500, "PDF processing failed", "failed", Null, {})
                          ELSE PdfEvent("process_pdf", user, pid, Null, db, ai_calls,
                                        500, "Internal server error", Null, Null, {})
              /\ nextProc' = nextProc + 1
    /\ UNCHANGED pdf_conversations

\* process_pdf while fewer than MaxPdf processing ids have been issued
PdfProcess(user, file_id, signed_url, presign_ok, ai, db) ==
    PdfProcessUpTo(MaxPdf, user, file_id, signed_url, presign_ok, ai, db)

\* the question asked whatever the status of the record
PdfAsk_NoGate(user, processing_id, question, ai, db) ==
    /\ user # Null
    /\ LET rec == get_processing_record(processing_id, user)
           ev(calls_made, code, error, answer) ==
               PdfEvent("ask_question", user, processing_id, question, db,
                        calls_made, code, error, Null, answer, {})
       IN  IF processing_id = 0 \/ ~Truthy(question)
             THEN /\ pevent' = ev(0, 400, "Missing required fields", Null)
                  /\ UNCHANGED pdf_conversations
           ELSE IF ~pdf_tables \/ ~db[1]
             THEN /\ pevent' = ev(0, 500, "Internal server error", Null)
                  /\ UNCHANGED pdf_conversations
           ELSE IF rec = {}
             THEN /\ pevent' = ev(0, 404, "Processing record not found", Null)
                  /\ UNCHANGED pdf_conversations
           ELSE IF ai.status = "success" /\ db[2]
             THEN /\ Count(pdf_conversations) < MaxConv
                  /\ pdf_conversations' = pdf_conversations \cup
                        {[id |-> Count(pdf_conversations) + 1,
                          processing_id |-> processing_id,
                          question |-> question, answer |-> "answer"]}
                  /\ pevent' = ev(ai.calls, 200, Null, "answer")
           ELSE /\ pevent' = ev(ai.calls, 500, "Question processing failed", Null)
                /\ UNCHANGED pdf_conversations
    /\ UNCHANGED <<pdf_tables, pdf_processing, nextProc>>

\* lines 480-555: action 'ask_question'; save_conversation lines 260-280
PdfAsk(user, processing_id, question, ai, db) ==
    /\ user # Null
    /\ LET rec == get_processing_record(processing_id, user)
           ev(calls_made, code, error, answer) ==
               PdfEvent("ask_question", user, processing_id, question, db,
                        calls_made, code, error, Null, answer, {})
       IN  IF processing_id = 0 \/ ~Truthy(question)
             THEN /\ pevent' = ev(0, 400, "Missing required fields", Null)
                  /\ UNCHANGED pdf_conversations
           ELSE IF ~pdf_tables \/ ~db[1]
             THEN /\ pevent' = ev(0, 500, "Internal server error", Null)
                  /\ UNCHANGED pdf_conversations
           ELSE IF rec = {}
             THEN /\ pevent' = ev(0, 404, "Processing record not found", Null)
                  /\ UNCHANGED pdf_conversations
           ELSE IF \E r \in rec : r.processing_status # "completed"
             THEN /\ pevent' = ev(0, 400, "Processing not completed", Null)
                  /\ UNCHANGED pdf_conversations
           ELSE IF ai.status = "success" /\ db[2]
             THEN /\ Count(pdf_conversations) < MaxConv
                  /\ pdf_conversations' = pdf_conversations \cup
                        {[id |-> Count(pdf_conversations) + 1,
                          processing_id |-> processing_id,
                          question |-> question, answer |-> "answer"]}
                  /\ pevent' = ev(ai.calls, 200, Null, "answer")
           ELSE /\ pevent' = ev(ai.calls, 500, "Question processing failed", Null)
                /\ UNCHANGED pdf_conversations
    /\ UNCHANGED <<pdf_tables, pdf_processing, nextProc>>

\* lines 557-593: action 'get_conversations'
PdfConversations(user, processing_id, db) ==
    /\ user # Null
    /\ LET rec == get_processing_record(processing_id, user)
           ev(code, error, convs) ==
               PdfEvent("get_conversations", user, processing_id, Null, db,
                        0, code, error, Null, Null, convs)
       IN  pevent' =
             IF processing_id = 0 THEN ev(400, "Missing required fields", {})
             ELSE IF ~pdf_tables \/ ~db[1] THEN ev(500, "Internal server error", {})
             ELSE IF rec = {} THEN ev(404, "Processing record not found", {})
             ELSE IF ~db[2] THEN ev(500, "Internal server error", {})
             ELSE ev(200, Null, get_conversation_history(processing_id))
    /\ UNCHANGED <<pdf_tables, pdf_processing, pdf_conversations, nextProc>>

\* lines 595-603: any other action
PdfInvalidAction(user) ==
    /\ user # Null
    /\ pevent' = PdfEvent("other", user, 0, Null, DbUp, 0, 400, "Invalid action",
                          Null, Null, {})
    /\ UNCHANGED <<pdf_tables, pdf_processing, pdf_conversations, nextProc>>

NextPdf ==
    \/ \E a \in {"process_pdf", "ask_question", "get_conversations", "other"} :
          PdfUnauthorized(a)
          /\ UNCHANGED <<projVars, seqVars, raceVars, fileVars, delVars, apiVars>>
    \/ \E u \in Callers, i \in {0, 1}, url \in SignedUrls :
          /\ i = 0 \/ ~Truthy(url)
          /\ PdfProcess(u, i, url, TRUE, AiAnswers, DbUp)
          /\ UNCHANGED <<projVars, seqVars, raceVars, fileVars, delVars, apiVars>>
    \/ \E u \in Callers, r \in ProcessRuns :
          PdfProcess(u, 1, r.url, r.presign_ok, r.ai, r.db)
          /\ UNCHANGED <<projVars, seqVars, raceVars, fileVars, delVars, apiVars>>
    \/ \E u \in Callers, i \in ProcIds, q \in Questions :
          /\ i = 0 \/ ~Truthy(q)
          /\ PdfAsk(u, i, q, AiAnswers, DbUp)
          /\ UNCHANGED <<projVars, seqVars, raceVars, fileVars, delVars, apiVars>>
    \/ \E u \in Callers, i \in ProcIds \ {0}, r \in AskRuns :
          PdfAsk(u, i, "q1", r.ai, r.db)
          /\ UNCHANGED <<projVars, seqVars, raceVars, fileVars, delVars, apiVars>>
    \/ \E u \in Callers, i \in ProcIds, db \in DbOutcomes :
          /\ ~db[1] => db[2]
          /\ i = 0 => db = DbUp
          /\ PdfConversations(u, i, db)
          /\ UNCHANGED <<projVars, seqVars, raceVars, fileVars, delVars, apiVars>>
    \/ \E u \in Callers :
          PdfInvalidAction(u)
          /\ UNCHANGED <<projVars, seqVars, raceVars, fileVars, delVars, apiVars>>

SpecPdf == Init /\ [][NextPdf]_vars

\* process_pdf requests of one user, each under its own processing id, and
\* the questions of that user and of another on the ids issued so far
NextTerminal ==
    \/ \E r \in ProcessRuns :
          PdfProcessUpTo(MaxRuns, "u1", 1, r.url, r.presign_ok, r.ai, r.db)
          /\ UNCHANGED <<projVars, seqVars, raceVars, fileVars, delVars, apiVars>>
    \/ \E u \in Callers \ {Null}, i \in 1 .. MaxRuns, r \in AskRuns :
          PdfAsk(u, i, "q1", r.ai, r.db)
          /\ UNCHANGED <<projVars, seqVars, raceVars, fileVars, delVars, apiVars>>

SpecTerminal == Init /\ [][NextTerminal]_vars

----------------------------------------------------------------------------
(* The delete action statement by statement: handler lines 624-681 with    *)
(* delete_file_metadata (lines 331-375) and delete_file_from_s3 (lines     *)
(* 309-329).  Each process serves one delete request; uploads and the      *)
(* clients' PUTs go on meanwhile.                                          *)

DGoto(p, label) == dpc' = [dpc EXCEPT ![p] = label]

DReturn(p, out) == /\ dres' = [dres EXCEPT ![p] = out]
                   /\ DGoto(p, "idle")

\* lines 626-636: file_id = body.get('file_id'); if not file_id: 400
DelBegin(p, user, file_id) ==
    /\ dpc[p] = "idle"
    /\ dres[p].statusCode = 0
    /\ user # Null
    /\ dreq' = [dreq EXCEPT ![p] = [user |-> user, file_id |-> file_id]]
    /\ IF file_id = 0 THEN DReturn(p, MissingField)
                      ELSE DGoto(p, "select") /\ UNCHANGED dres
    /\ UNCHANGED <<dmeta, s3log, fileVars>>

\* lines 337-350: the SELECT of delete_file_metadata; on a missing table it
\* raises, which the handler's except of line 672 answers
DelSelect(p) ==
    /\ dpc[p] = "select"
    /\ LET rows == get_file_metadata(dreq[p].file_id, dreq[p].user)
       IN  IF ~files_table THEN DReturn(p, DeleteFailed) /\ UNCHANGED dmeta
           ELSE IF rows = {} THEN DReturn(p, FileNotFound) /\ UNCHANGED dmeta
           ELSE /\ dmeta' = [dmeta EXCEPT ![p] = <<[rows |-> rows, deleted |-> 0]>>]
                /\ DGoto(p, "delete")
                /\ UNCHANGED dres
    /\ UNCHANGED <<dreq, s3log, fileVars>>

\* the row delete going on to the object store whatever its rowcount
DelDelete_IgnoreRowcount(p) ==
    /\ dpc[p] = "delete"
    /\ LET del == delete_file_metadata(dreq[p].file_id, dreq[p].user)
       IN  /\ files' = del.rows
           /\ dmeta' = [dmeta EXCEPT ![p] =
                          <<[rows |-> dmeta[p][1].rows, deleted |-> Count(del.deleted)]>>]
           /\ DGoto(p, "s3")
           /\ UNCHANGED dres
    /\ UNCHANGED <<dreq, s3log, files_table, objects, nextFile, fevent>>

\* lines 353-369: the DELETE, its rowcount and the commit; lines 642-650
DelDelete(p) ==
    /\ dpc[p] = "delete"
    /\ LET del == delete_file_metadata(dreq[p].file_id, dreq[p].user)
       IN  /\ files' = del.rows
           /\ dmeta' = [dmeta EXCEPT ![p] =
                          <<[rows |-> dmeta[p][1].rows, deleted |-> Count(del.deleted)]>>]
           /\ IF del.deleted = {}
                THEN DReturn(p, FileNotFound)
                ELSE DGoto(p, "s3") /\ UNCHANGED dres
    /\ UNCHANGED <<dreq, s3log, files_table, objects, nextFile, fevent>>

\* the object-store delete whose failure puts the rows back
DelS3_Restores(p, ok) ==
    /\ dpc[p] = "s3"
    /\ LET keys == {f.s3_key : f \in dmeta[p][1].rows}
       IN  /\ s3log' = s3log \cup {<<p, k, ok>> : k \in keys}
           /\ objects' = IF ok THEN objects \ keys ELSE objects
           /\ files' = IF ok THEN files ELSE files \cup dmeta[p][1].rows
           /\ DReturn(p, IF ok THEN FileOut(200, Null, dmeta[p][1].rows)
                               ELSE DeleteFailed)
    /\ UNCHANGED <<dreq, dmeta, files_table, nextFile, fevent>>

\* lines 652-681: delete_file_from_s3(s3_key); the call succeeds, or raises
\* and the handler answers 500 'Delete operation failed'
DelS3(p, ok) ==
    /\ dpc[p] = "s3"
    /\ LET keys == {f.s3_key : f \in dmeta[p][1].rows}
       IN  /\ s3log' = s3log \cup {<<p, k, ok>> : k \in keys}
           /\ objects' = IF ok THEN objects \ keys ELSE objects
           /\ DReturn(p, IF ok THEN FileOut(200, Null, dmeta[p][1].rows)
                               ELSE DeleteFailed)
    /\ UNCHANGED <<dreq, dmeta, files_table, files, nextFile, fevent>>

NextDelete ==
    \/ \E u \in Callers, n \in Filenames, d \in Dates :
          /\ nextFile <= MaxDelFiles
          /\ FileUpload(u, n, d, Null)
          /\ UNCHANGED <<projVars, seqVars, raceVars, delVars, pdfVars, apiVars>>
    \/ \E f \in files :
          ClientPut(f)
          /\ UNCHANGED <<projVars, seqVars, raceVars, delVars, pdfVars, apiVars>>
    \/ \E p \in Procs :
          \/ \E u \in Callers, i \in 0 .. (MaxDelFiles + 1) :
                DelBegin(p, u, i)
                /\ UNCHANGED <<projVars, seqVars, raceVars, pdfVars, apiVars>>
          \/ DelSelect(p) /\ UNCHANGED <<projVars, seqVars, raceVars, pdfVars, apiVars>>
          \/ DelDelete(p) /\ UNCHANGED <<projVars, seqVars, raceVars, pdfVars, apiVars>>
          \/ \E ok \in BOOLEAN :
                DelS3(p, ok)
                /\ UNCHANGED <<projVars, seqVars, raceVars, pdfVars, apiVars>>

SpecDelete == Init /\ [][NextDelete]_vars

\* one owner: uploads, PUTs and confirms, deletes statement by statement,
\* and the gets and downloads that go on before and after them
NextOrphan ==
    \/ \E n \in Filenames, d \in Dates :
          /\ nextFile <= MaxDelFiles
          /\ FileUpload("u1", n, d, Null)
          /\ UNCHANGED <<projVars, seqVars, raceVars, delVars, pdfVars, apiVars>>
    \/ \E f \in files :
          ClientPut(f)
          /\ UNCHANGED <<projVars, seqVars, raceVars, delVars, pdfVars, apiVars>>
    \/ \E i \in 1 .. MaxDelFiles :
          FileConfirm("u1", i, <<>>)
          /\ UNCHANGED <<projVars, seqVars, raceVars, delVars, pdfVars, apiVars>>
    \/ \E p \in Procs, i \in 1 .. MaxDelFiles :
          DelBegin(p, "u1", i)
          /\ UNCHANGED <<projVars, seqVars, raceVars, pdfVars, apiVars>>
    \/ \E p \in Procs :
          DelSelect(p) /\ UNCHANGED <<projVars, seqVars, raceVars, pdfVars, apiVars>>
    \/ \E p \in Procs :
          DelDelete(p) /\ UNCHANGED <<projVars, seqVars, raceVars, pdfVars, apiVars>>
    \/ \E p \in Procs, ok \in BOOLEAN :
          DelS3(p, ok) /\ UNCHANGED <<projVars, seqVars, raceVars, pdfVars, apiVars>>
    \/ \E i \in 1 .. MaxDelFiles :
          FileGet("u1", i)
          /\ UNCHANGED <<projVars, seqVars, raceVars, delVars, pdfVars, apiVars>>
    \/ \E i \in 1 .. MaxDelFiles :
          FileDownload("u1", i)
          /\ UNCHANGED <<projVars, seqVars, raceVars, delVars, pdfVars, apiVars>>

SpecOrphan == Init /\ [][NextOrphan]_vars

----------------------------------------------------------------------------
(* The three handlers as the gateway invokes them: the identity is resolved *)
(* from the event, then the action of the body is dispatched.  The event    *)
(* comes after requests of the signed-in user u1 have filled the stores     *)

\* a user id as the request context carries it: absent, empty, a name
ApiIds == {Null, "", "u1"}

\* where an event can carry a user id: requestContext.authorizer.claims
\* (Null: no claims or an empty dict; "": claims without a usable name),
\* requestContext.authorizer.principalId, headers['x-user-id'],
\* body['user_id']
Sources ==
    [claims : ApiIds, principal : ApiIds, header : ApiIds, body_user : ApiIds]

\* the required fields a body can carry with a non-empty value
FieldNames == {"filename", "file_id", "signed_url", "processing_id", "question"}

FileActions == {"upload", "confirm", "get", "list", "download", "delete"}
PdfActions == {"process_pdf", "ask_question", "get_conversations"}

\* body.get('action'): an action of the handler, none, or an unknown one
ActionsOf(supported) == supported \cup {Null, "bogus"}

\* the fields the code of an action reads
FieldsOf(action) ==
    CASE action = "upload" -> {"filename"}
      [] action \in {"confirm", "get", "download", "delete"} -> {"file_id"}
      [] action = "process_pdf" -> {"file_id", "signed_url"}
      [] action = "ask_question" -> {"processing_id", "question"}
      [] action = "get_conversations" -> {"processing_id"}
      [] action = "create_project" -> {"user_id", "email"}
      [] OTHER -> {}

\* file_upload.py and projects.py: claims (cognito:username or sub), then
\* the authorizer itself (principalId or sub)
extract_user_info(src) ==
    IF Truthy(src.claims) THEN src.claims ELSE src.principal

\* pdf_processor.py: claims when there are any, else the x-user-id header
\* when there is one, else user_id of the body
pdf_extract_user_info(src) ==
    IF src.claims # Null THEN src.claims
    ELSE IF src.header # Null THEN src.header
    ELSE src.body_user

\* the check with None only, '' passing for a user
Authenticated_NotNone(user) == user # Null

\* if not user_id: 401
Authenticated(user) == Truthy(user)

\* bookkeeping of the received event and of the status it was answered
\* with; one event is followed in a behaviour
Served(handler, src, action, b, statusCode, projs) ==
    /\ aevent' = [handler |-> handler, claims |-> src.claims,
                  principal |-> src.principal, header |-> src.header,
                  body_user |-> src.body_user, action |-> action,
                  fields |-> b, statusCode |-> statusCode, projects |-> projs]
    /\ UNCHANGED today

\* file_upload.py handler, lines 390-691
ApiFile(src, action, b) ==
    LET user == extract_user_info(src)
        fid == IF "file_id" \in b THEN 1 ELSE 0
        name == IF "filename" \in b THEN <<"a", " ", "/", "b">> ELSE <<>>
    IN  /\ IF ~Authenticated(user) THEN FileUnauthorized(action)
           ELSE IF action = "upload"
             THEN FileUpload(user, name, <<"2024", "/", "03", "/", "05">>, Null)
           ELSE IF action = "confirm" THEN FileConfirm(user, fid, <<>>)
           ELSE IF action = "get" THEN FileGet(user, fid)
           ELSE IF action = "list" THEN FileList(user, Null)
           ELSE IF action = "download" THEN FileDownload(user, fid)
           ELSE IF action = "delete" THEN FileDelete(user, fid)
           ELSE FileInvalidAction(user)
        /\ Served("file", src, action, b, fevent'.out.statusCode, {})

\* pdf_processor.py handler, lines 380-603; the store and the AI service up
ApiPdf(src, action, b) ==
    LET user == pdf_extract_user_info(src)
        fid == IF "file_id" \in b THEN 1 ELSE 0
        url == IF "signed_url" \in b THEN "http://s" ELSE Null
        pid == IF "processing_id" \in b THEN 1 ELSE 0
        q == IF "question" \in b THEN "q1" ELSE Null
    IN  /\ IF ~Authenticated(user) THEN PdfUnauthorized(action)
           ELSE IF action = "process_pdf"
             THEN PdfProcess(user, fid, url, TRUE, AiAnswers, DbUp)
           ELSE IF action = "ask_question"
             THEN PdfAsk(user, pid, q, AiAnswers, DbUp)
           ELSE IF action = "get_conversations"
             THEN PdfConversations(user, pid, DbUp)
           ELSE PdfInvalidAction(user)
        /\ Served("pdf", src, action, b, pevent'.statusCode, {})

\* projects.py lines 189-220: the projects joined to the rows of a user
get_user_projects(user_id) ==
    {ud.project_id : ud \in ByUserId(user_details, user_id)} \cap projects

\* projects.py handler, lines 286-321: 'get_projects' and the else branch
\* (create_project is served by CreateRejected, CreateMatched, CreateNew)
ApiProjects(src, action) ==
    LET user == extract_user_info(src)
    IN  /\ IF action # "get_projects" THEN Served("projects", src, action, {}, 400, {})
           ELSE IF ~Authenticated(user) THEN Served("projects", src, action, {}, 401, {})
           ELSE IF ~tables THEN Served("projects", src, action, {}, 500, {})
           ELSE Served("projects", src, action, {}, 200, get_user_projects(user))
        /\ UNCHANGED projVars

\* the auth handler's create_project for a user who signed up
SignedUp == [user_id |-> "u1", email |-> "E1", cognito_sub |-> Null]

NextApi ==
    \/ /\ aevent = NoEvent
       /\ \E src \in Sources, a \in ActionsOf(FileActions) :
          /\ ApiFile(src, a, FieldsOf(a))
          /\ UNCHANGED <<projVars, seqVars, raceVars, delVars, pdfVars, afault>>
    \/ /\ aevent = NoEvent
       /\ \E src \in Sources, a \in FileActions \ {"list"}, b \in SUBSET FieldNames :
          /\ b \subseteq FieldsOf(a)
          /\ b # FieldsOf(a)
          /\ ApiFile(src, a, b)
          /\ UNCHANGED <<projVars, seqVars, raceVars, delVars, pdfVars, afault>>
    \/ /\ aevent = NoEvent
       /\ \E src \in Sources, a \in ActionsOf(PdfActions) :
          /\ ApiPdf(src, a, FieldsOf(a))
          /\ UNCHANGED <<projVars, seqVars, raceVars, fileVars, delVars, afault>>
    \/ /\ aevent = NoEvent
       /\ \E src \in Sources, a \in PdfActions, b \in SUBSET FieldNames :
          /\ b \subseteq FieldsOf(a)
          /\ b # FieldsOf(a)
          /\ ApiPdf(src, a, b)
          /\ UNCHANGED <<projVars, seqVars, raceVars, fileVars, delVars, afault>>
    \/ /\ aevent = NoEvent
       /\ \E src \in Sources, a \in ActionsOf({"get_projects"}) :
          /\ ApiProjects(src, a)
          /\ UNCHANGED <<seqVars, raceVars, fileVars, delVars, pdfVars, afault>>
    \/ /\ aevent = NoEvent
       /\ user_details = {}
       /\ CreateNew(SignedUp)
       /\ UNCHANGED returned
    \/ /\ aevent = NoEvent
       /\ FileUpload("u1", <<"a", " ", "/", "b">>, <<"2024", "/", "03", "/", "05">>, Null)
       /\ UNCHANGED <<projVars, seqVars, raceVars, delVars, pdfVars, apiVars>>
    \/ /\ aevent = NoEvent
       /\ PdfProcess("u1", 1, "http://s", TRUE, AiAnswers, DbUp)
       /\ UNCHANGED <<projVars, seqVars, raceVars, fileVars, delVars, apiVars>>
    \/ /\ aevent = NoEvent
       /\ PdfAsk("u1", 1, "q1", AiAnswers, DbUp)
       /\ UNCHANGED <<projVars, seqVars, raceVars, fileVars, delVars, apiVars>>

SpecApi == Init /\ [][NextApi]_vars

----------------------------------------------------------------------------
(* One event served while services fail: which call of the handler raises,  *)
(* and which except clause answers                                           *)

\* per service, whether its calls succeed during the event: the relational
\* store, the bucket (presigning, delete_object), the AI service
Faults == [db : BOOLEAN, s3 : BOOLEAN, ai : BOOLEAN]

\* the event of a user the authorizer has named
SignedIn == [claims |-> "u1", principal |-> Null, header |-> Null, body_user |-> Null]

\* the events of SpecFault: of that user, or of nobody
FaultSources ==
    {SignedIn,
     [claims |-> Null, principal |-> Null, header |-> Null, body_user |-> Null]}

\* the request passes the checks made before the first call to a service
Valid(user, action, b, supported) ==
    /\ Authenticated(user)
    /\ action \in supported
    /\ FieldsOf(action) \subseteq b

\* file_upload.py handler with failing calls.  upload: the presigning of
\* line 441 raises before the save of line 444; every action: its first
\* statement on the store raises (lines 693-705, for delete lines 672-681);
\* download: the presigning of line 605 raises; delete: delete_object
\* raises once the row is deleted and committed (line 656)
FaultFile(src, action, b, fl) ==
    LET user == extract_user_info(src)
        fid == IF "file_id" \in b THEN 1 ELSE 0
        valid == Valid(user, action, b, FileActions)
        rows == get_file_metadata(fid, user)
        del == delete_file_metadata(fid, user)
        failed(out) ==
            /\ Answer(action, user, fid, <<>>, out)
            /\ UNCHANGED <<files_table, files, objects, nextFile>>
            /\ Served("file", src, action, b, 500, {})
    IN  /\ afault' = fl
        /\ IF valid /\ action = "upload" /\ ~fl.s3 THEN failed(ServerError)
           ELSE IF valid /\ action = "delete" /\ ~fl.db THEN failed(DeleteFailed)
           ELSE IF valid /\ ~fl.db THEN failed(ServerError)
           ELSE IF /\ valid /\ action = "download" /\ ~fl.s3
                   /\ files_table /\ rows # {}
                   /\ \A f \in rows : f.upload_status = "uploaded"
             THEN failed(ServerError)
           ELSE IF /\ valid /\ action = "delete" /\ ~fl.s3
                   /\ files_table /\ del.deleted # {}
             THEN /\ files' = del.rows
                  /\ Answer(action, user, fid, <<>>, DeleteFailed)
                  /\ UNCHANGED <<files_table, objects, nextFile>>
                  /\ Served("file", src, action, b, 500, {})
           ELSE ApiFile(src, action, b)

\* pdf_processor.py handler with failing calls: the outcomes are handed to
\* the actions, which hold the except clauses
FaultPdf(src, action, b, fl) ==
    LET user == pdf_extract_user_info(src)
        fid == IF "file_id" \in b THEN 1 ELSE 0
        url == IF "signed_url" \in b THEN "http://s" ELSE Null
        pid == IF "processing_id" \in b THEN 1 ELSE 0
        q == IF "question" \in b THEN "q1" ELSE Null
        ai == IF fl.ai THEN AiAnswers ELSE [status |-> "error", calls |-> 1]
        db == <<fl.db, fl.db>>
    IN  /\ afault' = fl
        /\ IF ~Authenticated(user) THEN PdfUnauthorized(action)
           ELSE IF action = "process_pdf" THEN PdfProcess(user, fid, url, TRUE, ai, db)
           ELSE IF action = "ask_question" THEN PdfAsk(user, pid, q, ai, db)
           ELSE IF action = "get_conversations" THEN PdfConversations(user, pid, db)
           ELSE PdfInvalidAction(user)
        /\ Served("pdf", src, action, b, pevent'.statusCode, {})

\* the handler of projects.py without its outer except: the exception of
\* a failing store leaves the handler, no envelope is returned
FaultProjects_NoExcept(src, action, r, fl) ==
    LET user == extract_user_info(src)
        b == {k \in {"user_id", "email"} : Truthy(r[k])}
        reaches == \/ action = "create_project" /\ ~Rejected(r)
                   \/ action = "get_projects" /\ Authenticated(user)
    IN  /\ afault' = fl
        /\ IF action = "create_project" /\ Rejected(r)
             THEN Served("projects", src, action, b, 400, {}) /\ UNCHANGED projVars
           ELSE IF reaches /\ ~fl.db
             THEN Served("projects", src, action, b, 0, {}) /\ UNCHANGED projVars
           ELSE action # "create_project" /\ ApiProjects(src, action)

\* projects.py handler with a failing store: create_project (lines 262-284)
\* and get_projects (286-309) raise out of their first statement and the
\* outer except answers (321-333); a create_project that the store serves
\* is CreateMatched or CreateNew
FaultProjects(src, action, r, fl) ==
    LET user == extract_user_info(src)
        b == {k \in {"user_id", "email"} : Truthy(r[k])}
        reaches == \/ action = "create_project" /\ ~Rejected(r)
                   \/ action = "get_projects" /\ Authenticated(user)
    IN  /\ afault' = fl
        /\ IF action = "create_project" /\ Rejected(r)
             THEN Served("projects", src, action, b, 400, {}) /\ UNCHANGED projVars
           ELSE IF reaches /\ ~fl.db
             THEN Served("projects", src, action, b, 500, {}) /\ UNCHANGED projVars
           ELSE action # "create_project" /\ ApiProjects(src, action)

\* the bodies of create_project sent in SpecFault
FaultCreates ==
    {SignedUp, [user_id |-> Null, email |-> "E1", cognito_sub |-> Null]}

NextFault ==
    \/ /\ aevent = NoEvent
       /\ \E src \in FaultSources, a \in ActionsOf(FileActions),
             b \in SUBSET FieldNames, fl \in Faults :
          /\ b \subseteq FieldsOf(a)
          /\ FaultFile(src, a, b, fl)
          /\ UNCHANGED <<projVars, seqVars, raceVars, delVars, pdfVars>>
    \/ /\ aevent = NoEvent
       /\ \E src \in FaultSources, a \in ActionsOf(PdfActions),
             b \in SUBSET FieldNames, fl \in Faults :
          /\ b \subseteq FieldsOf(a)
          /\ FaultPdf(src, a, b, fl)
          /\ UNCHANGED <<projVars, seqVars, raceVars, fileVars, delVars>>
    \/ /\ aevent = NoEvent
       /\ \E src \in FaultSources,
             a \in ActionsOf({"create_project", "get_projects"}),
             r \in FaultCreates, fl \in Faults :
          /\ FaultProjects(src, a, r, fl)
          /\ UNCHANGED <<seqVars, raceVars, fileVars, delVars, pdfVars>>
    \/ /\ aevent = NoEvent
       /\ user_details = {}
       /\ CreateNew(SignedUp)
       /\ UNCHANGED returned
    \/ /\ aevent = NoEvent
       /\ FileUpload("u1", <<"a", " ", "/", "b">>, <<"2024", "/", "03", "/", "05">>, Null)
       /\ UNCHANGED <<projVars, seqVars, raceVars, delVars, pdfVars, apiVars>>
    \/ /\ aevent = NoEvent
       /\ \E f \in files : ClientPut(f)
       /\ UNCHANGED <<projVars, seqVars, raceVars, delVars, pdfVars, apiVars>>
    \/ /\ aevent = NoEvent
       /\ FileConfirm("u1", 1, <<7>>)
       /\ UNCHANGED <<projVars, seqVars, raceVars, delVars, pdfVars, apiVars>>
    \/ /\ aevent = NoEvent
       /\ PdfProcess("u1", 1, "http://s", TRUE, AiAnswers, DbUp)
       /\ UNCHANGED <<projVars, seqVars, raceVars, fileVars, delVars, apiVars>>

SpecFault == Init /\ [][NextFault]_vars

----------------------------------------------------------------------------
(* Properties of the project registrar                                     *)

Last == hist[Len(hist)]

\* a field that is missing, or empty once trimmed
Unusable(v) == v = Null \/ Blank(v)

\* an identity as the contract wants it: local_id and email non-empty
WellFormed(r) == ~Unusable(r.user_id) /\ ~Unusable(r.email)

\* C1: two consecutive create_project calls with one identical, well-formed
\* identity return the same project_id, and the second call creates no
\* Project row and no UserDetail row.
C1_IdempotentRegistration ==
    (Len(hist) = 2 /\ hist[1].req = hist[2].req /\ WellFormed(hist[1].req))
    => /\ hist[1].out.statusCode = 200
       /\ hist[2].out.statusCode = 200
       /\ hist[2].out.project_id = hist[1].out.project_id
       /\ hist[2].ud_new = 0
       /\ hist[2].proj_new = 0

\* the case of C2: a first contact {A, E, S} followed by {B, E, no subject},
\* no row having held A, E, S or B before (the first call found no row for
\* A, E, S and wrote only its own row, and the second call's probe by B
\* found nothing)
C2_Case ==
    /\ Len(hist) = 2
    /\ WellFormed(hist[1].req) /\ WellFormed(hist[2].req)
    /\ hist[1].req.cognito_sub # Null
    /\ hist[2].req.cognito_sub = Null
    /\ hist[1].req.email = hist[2].req.email
    /\ hist[1].req.user_id # hist[2].req.user_id
    /\ hist[1].fresh
    /\ hist[2].uid_free

\* C2: in that case both calls return the same project_id and the store
\* holds exactly one Project row and one UserDetail row for these keys.
C2_CrossKeyConvergence ==
    C2_Case =>
        /\ hist[1].out.statusCode = 200
        /\ hist[2].out.statusCode = 200
        /\ hist[2].out.project_id = hist[1].out.project_id
        /\ hist[1].ud_new + hist[2].ud_new = 1
        /\ hist[1].proj_new + hist[2].proj_new = 1
        /\ LET mine == ByAnyKey(user_details, hist[1].req) \cup
                       ByAnyKey(user_details, hist[2].req)
           IN  /\ Count(mine) = 1
               /\ {x.project_id : x \in mine} = {hist[1].out.project_id}
               /\ hist[1].out.project_id \in projects

C2_Witness ==
    /\ C2_Case
    /\ hist[2].out.statusCode = 200
    /\ hist[2].out.project_id = hist[1].out.project_id
    /\ Count(user_details) > 1

\* C5 as claimed: any two calls whose identities share a key (subject,
\* local_id or email) returned the same project_id.
C5_AnySharedKey ==
    \A a, b \in returned : (a[1] = b[1] /\ a[2] = b[2]) => a[3] = b[3]

\* C5 as amended: a call that carries the subject of the latest
\* subject-carrying call returns the project_id that call returned.
C5_SameSubject ==
    [][(now' # now
        /\ hist'[Len(hist')].req.cognito_sub # Null
        /\ hist'[Len(hist')].req.cognito_sub = lastSub.sub
        /\ ~Rejected(hist'[Len(hist')].req))
       => /\ hist'[Len(hist')].out.statusCode = 200
          /\ hist'[Len(hist')].out.project_id = lastSub.project_id]_vars

\* the subject came a second time, after a call without subject that was
\* given another project
C5_Witness ==
    /\ Len(hist) = 2
    /\ lastSub.calls >= 2
    /\ Last.req.cognito_sub = lastSub.sub
    /\ Last.out.project_id = lastSub.project_id
    /\ hist[1].req.cognito_sub = Null
    /\ hist[1].out.statusCode = 200
    /\ hist[1].out.project_id # Last.out.project_id

\* C6: a UserDetail row keeps the project_id it was inserted with; a call
\* removes no row and changes neither id nor project_id of any row.
C6_ProjectIdNeverReplaced ==
    [][\A x \in user_details :
          \E y \in user_details' : y.id = x.id /\ y.project_id = x.project_id]_vars

\* a matched row was rewritten: new user_id, new last_login, same project_id
C6_Witness ==
    /\ Len(hist) = 2
    /\ hist[1].ud_new = 1
    /\ Last.ud_new = 0
    /\ Last.out.statusCode = 200
    /\ Last.out.project_id = hist[1].out.project_id
    /\ Last.req.user_id # hist[1].req.user_id
    /\ \E x \in user_details :
          /\ x.id = hist[1].out.project_id
          /\ x.project_id = x.id
          /\ x.user_id = Last.req.user_id
          /\ x.last_login = now

\* C8: a request whose user_id or email is missing or empty after trimming
\* gets 400 and leaves the store as it was: no table, no row.
C8_BlankIdentityRejected ==
    [][(now' # now
        /\ (Unusable(hist'[Len(hist')].req.user_id)
            \/ Unusable(hist'[Len(hist')].req.email)))
       => /\ hist'[Len(hist')].out.statusCode = 400
          /\ UNCHANGED <<tables, projects, user_details>>]_vars

----------------------------------------------------------------------------
(* Properties of two racing create_project requests                        *)

\* both processes have served their racing request
BothReturned == \A p \in Procs : base[p].race /\ pc[p] = "idle"

\* both were first contacts: no row matched a key of either when it began
BothFirst == \A p \in Procs : base[p].first /\ ~Rejected(req[p])

\* C3: two concurrent first contacts with the same subject leave exactly one
\* new Project row and one new UserDetail row, and both get its project_id.
C3_RaceWithSubject ==
    (BothReturned /\ BothFirst
     /\ req[1].cognito_sub # Null /\ req[1].cognito_sub = req[2].cognito_sub)
    => /\ result[1].statusCode = 200
       /\ result[2].statusCode = 200
       /\ result[1].project_id = result[2].project_id
       /\ Count(user_details) = base[1].ud + 1
       /\ Count(projects) = base[1].proj + 1
       /\ Count(BySub(user_details, req[1].cognito_sub)) = 1
       /\ result[1].project_id \in projects

\* the loser's insert hit the unique index: its uuid was discarded
C3_Witness ==
    /\ BothReturned /\ BothFirst
    /\ req[1].cognito_sub # Null /\ req[1].cognito_sub = req[2].cognito_sub
    /\ req[1].user_id # req[2].user_id
    /\ req[1].email # req[2].email
    /\ result[1].project_id = result[2].project_id
    /\ nextId = Count(projects) + 2

\* C4: two concurrent first contacts with the same local_id and email and no
\* subject create at most one Project row and one UserDetail row, and both
\* get the same project_id.
C4_RaceWithoutSubject ==
    (BothReturned /\ BothFirst
     /\ req[1].cognito_sub = Null /\ req[1] = req[2])
    => /\ result[1].statusCode = 200
       /\ result[2].statusCode = 200
       /\ result[1].project_id = result[2].project_id
       /\ Count(user_details) <= base[1].ud + 1
       /\ Count(projects) <= base[1].proj + 1

\* C7: no request is answered 500 because a unique constraint was violated
\* (a unique violation is the only failure these behaviours contain).
C7_ConflictNeverSurfaces == \A p \in Procs : result[p].statusCode # 500

----------------------------------------------------------------------------
(* Properties of the file registry                                         *)

\* C9: a successful upload adds exactly one row, owned by the caller, pending
\* and of size 0; a confirm by the owner sets the row to uploaded, with the
\* size given, or with the size it had when none is given.
C9_UploadLifecycle ==
    [][/\ (fevent'.action = "upload" /\ fevent'.out.statusCode = 200)
          => \E row \in files' \ files :
                /\ files' = files \cup {row}
                /\ \A f \in files : f.file_id # row.file_id
                /\ row.file_id = fevent'.file_id
                /\ row.user_id = fevent'.user
                /\ row.upload_status = "pending"
                /\ row.file_size = 0
       /\ \A x \in files :
            (fevent'.action = "confirm" /\ fevent'.file_id = x.file_id
             /\ fevent'.user = x.user_id)
            => /\ fevent'.out.statusCode = 200
               /\ files' = (files \ {x}) \cup
                    {[x EXCEPT !.upload_status = "uploaded",
                               !.file_size = IF fevent'.file_size = <<>>
                                               THEN x.file_size
                                               ELSE fevent'.file_size[1]]}]_vars

\* a confirm without file_size, on a row an earlier confirm had given size 7
C9_Witness ==
    /\ fevent.action = "confirm"
    /\ fevent.file_size = <<>>
    /\ fevent.out.statusCode = 200
    /\ \E f \in files : /\ f.file_id = fevent.file_id
                         /\ f.user_id = fevent.user
                         /\ f.upload_status = "uploaded"
                         /\ f.file_size = 7

ByFileId == {"get", "confirm", "download", "delete"}

\* C10: get, confirm, download, delete of another user's file answer 404,
\* the very response given for a file_id no row has, and change neither the
\* rows nor the bucket.
C10_OwnershipIsolation ==
    [][\A u \in Callers \ {Null} :
         (fevent'.action \in ByFileId /\ fevent'.user = u
          /\ fevent'.file_id # 0 /\ files_table)
         => /\ (\E f \in files : f.file_id = fevent'.file_id /\ f.user_id # u)
               => /\ fevent'.out = FileNotFound
                  /\ files' = files
                  /\ objects' = objects
            /\ (\A f \in files : f.file_id # fevent'.file_id)
               => /\ fevent'.out = FileNotFound
                  /\ files' = files
                  /\ objects' = objects]_vars

\* a delete of another user's uploaded file: answered 404, row and object kept
C10_Witness ==
    /\ fevent.action = "delete"
    /\ fevent.out = FileNotFound
    /\ \E f \in files : /\ f.file_id = fevent.file_id
                         /\ f.user_id # fevent.user
                         /\ f.upload_status = "uploaded"
                         /\ f.s3_key \in objects

\* the File rows of one user
OwnedBy(rows, u) == {f \in rows : f.user_id = u}

\* the rows a listing by user u with filter p is to show
Listed(rows, u, p) ==
    {f \in rows : f.user_id = u /\ (Truthy(p) => f.project_id = p)}

\* C11: a list answers with the caller's rows, all of them and no others,
\* or, when a project_id is given, with exactly the caller's rows of that
\* project; and a request of one user leaves every other user's rows, hence
\* every other user's listings, as they were.
C11_ListScoped ==
    [][/\ (fevent'.action = "list" /\ files_table) =>
            (/\ fevent'.out.statusCode = 200
             /\ fevent'.out.rows =
                  {ListRow(f) : f \in Listed(files, fevent'.user, fevent'.project_id)}
             /\ files' = files)
       /\ \A u \in Callers \ {Null} :
            (fevent'.user # u) => (OwnedBy(files', u) = OwnedBy(files, u))]_vars

\* a listing by project that returned one row while another user holds a
\* row of the same project and the caller a row outside it
C11_Witness ==
    /\ fevent.action = "list"
    /\ fevent.project_id = "p1"
    /\ Count(fevent.out.rows) = 1
    /\ \E f \in files : f.user_id # fevent.user /\ f.project_id = "p1"

\* C12: a download is answered 200, with a URL signed for the row's key,
\* only for a row the caller owns and whose upload_status is 'uploaded';
\* for an owned row still 'pending' it is answered 400 'File not ready'
\* and no URL is signed.
C12_DownloadGating ==
    [][(fevent'.action = "download") =>
         (/\ (fevent'.out.statusCode = 200) =>
                 (\E f \in files : /\ f.file_id = fevent'.file_id
                                    /\ f.user_id = fevent'.user
                                    /\ f.upload_status = "uploaded"
                                    /\ fevent'.out.rows = {f})
          /\ \A f \in files :
                 (/\ f.file_id = fevent'.file_id
                  /\ f.user_id = fevent'.user
                  /\ f.upload_status = "pending") =>
                 (fevent'.out = FileNotReady /\ fevent'.out.rows = {})
          /\ files' = files)]_vars

\* a download refused although the object is already in the bucket: the
\* client has PUT the bytes but has not confirmed
C12_Witness ==
    /\ fevent.action = "download"
    /\ fevent.out = FileNotReady
    /\ \E f \in files : /\ f.file_id = fevent.file_id
                         /\ f.user_id = fevent.user
                         /\ f.upload_status = "pending"
                         /\ f.s3_key \in objects

\* the delete_object calls process p has issued
Issued(log, p) == {e \in log : e[1] = p}

\* C13: a request issues an object-store delete only for the key of a row
\* of the caller with the requested file_id that its own DELETE has just
\* removed; a request whose DELETE removed no row is answered 404 and has
\* issued no object-store delete.
C13_DeleteOrdering ==
    [][\A p \in Procs :
         /\ (Issued(s3log', p) # Issued(s3log, p)) =>
               (/\ dmeta[p] # <<>>
                /\ dmeta[p][1].deleted > 0
                /\ \A e \in Issued(s3log', p) :
                      \E f \in dmeta[p][1].rows :
                         /\ e[2] = f.s3_key
                         /\ f.file_id = dreq[p].file_id
                         /\ f.user_id = dreq[p].user
                         /\ f \notin files)
         /\ (/\ dpc[p] # "idle" /\ dpc'[p] = "idle"
             /\ files_table
             /\ (dmeta'[p] = <<>> \/ dmeta'[p][1].deleted = 0)) =>
               (/\ dres'[p] = FileNotFound
                /\ Issued(s3log', p) = {}
                /\ objects' = objects)]_vars

\* the owner's delete went through to the object store while another
\* user's delete of the same file_id was answered 404
C13_Witness ==
    \E p, q \in Procs :
        /\ dres[p].statusCode = 200
        /\ Issued(s3log, p) # {}
        /\ dres[q] = FileNotFound
        /\ dreq[q].file_id = dreq[p].file_id
        /\ dreq[q].user # dreq[p].user
        /\ Issued(s3log, q) = {}

\* the value of a decimal digit character
DigitVal(c) == CHOOSE i \in 0 .. 9 : Digit(i) = c

\* the number of path separators in a key
Slashes(k) == Count({i \in 1 .. Len(k) : k[i] = "/"})

\* C14: the key of an upload is user_id, '/', the day of issue as
\* yyyy/mm/dd, '/', file_id, '_' and the filename with each space and each
\* '/' replaced by '_' and every other character kept; the filename adds
\* no path segment (the key has the four separators of the pattern); for
\* 'r.r', user u1, 2024-03-05 it is u1/2024/03/05/{file_id}_r.r.
C14_KeyFormat ==
    [][(fevent' # fevent /\ fevent'.action = "upload"
        /\ fevent'.out.statusCode = 200) =>
         (\E f \in files' \ files :
            LET k == f.s3_key
                n == f.original_filename
                day == Days[today]
            IN  /\ f.user_id = fevent'.user
                /\ Len(k) = 15 + Len(n)
                /\ k[1] = f.user_id /\ k[2] = "/"
                /\ 1000 * DigitVal(k[3]) + 100 * DigitVal(k[4])
                     + 10 * DigitVal(k[5]) + DigitVal(k[6]) = day.y
                /\ k[7] = "/"
                /\ 10 * DigitVal(k[8]) + DigitVal(k[9]) = day.m
                /\ k[10] = "/"
                /\ 10 * DigitVal(k[11]) + DigitVal(k[12]) = day.d
                /\ k[13] = "/"
                /\ k[14] = Uuid(f.file_id) /\ k[15] = "_"
                /\ \A i \in 1 .. Len(n) :
                      k[15 + i] = IF n[i] \in {" ", "/"} THEN "_" ELSE n[i]
                /\ Slashes(k) = 4
                /\ (f.user_id = "u1" /\ today = 1 /\ n = <<"r", ".", "r">>) =>
                      k = <<"u1", "/", "2", "0", "2", "4", "/", "0", "3", "/",
                            "0", "5", "/", Uuid(f.file_id), "_", "r", ".", "r">>)]_vars

\* a key issued on the second of the days for a filename holding a space, a
\* '/' and a backslash
C14_Witness ==
    /\ today = 2
    /\ \E f \in files :
          /\ f.original_filename = <<" ", "/", "\\">>
          /\ SubSeq(f.s3_key, 3, 12) = <<"2", "0", "2", "4", "/", "1", "2", "/", "3", "1">>
          /\ SubSeq(f.s3_key, 16, 18) = <<"_", "_", "\\">>

----------------------------------------------------------------------------
(* Properties of the PDF session registry                                  *)

\* the processing records of one id held by one user
RecordsOf(pid, u) ==
    {r \in pdf_processing : r.processing_id = pid /\ r.user_id = u}

\* a PDF request has just been served
PdfServed(action) == pevent' # pevent /\ pevent'.action = action

\* C15: an ask_question with a question, on a record of the caller whose
\* status is not 'completed', is answered 400, sends nothing to the AI
\* service and stores no conversation row; on a 'completed' record it is
\* answered 200 unless the AI call or the store fails, and a 200 carries
\* the answer and stores exactly one conversation row, holding this
\* processing_id, question and answer.
C15_QuestionGating ==
    [][\A r \in pdf_processing :
         (/\ PdfServed("ask_question")
          /\ r.processing_id = pevent'.processing_id
          /\ r.user_id = pevent'.user
          /\ Truthy(pevent'.question)
          /\ pevent'.db = DbUp) =>
             IF r.processing_status # "completed"
               THEN /\ pevent'.statusCode = 400
                    /\ pevent'.error = "Processing not completed"
                    /\ pevent'.ai_calls = 0
                    /\ pevent'.answer = Null
                    /\ pdf_conversations' = pdf_conversations
               ELSE /\ pevent'.statusCode \in {200, 500}
                    /\ pevent'.ai_calls > 0 \/ pevent'.statusCode = 500
                    /\ (pevent'.statusCode = 500) =>
                          (pdf_conversations' = pdf_conversations)
                    /\ (pevent'.statusCode = 200) =>
                          (/\ pevent'.answer # Null
                           /\ \E c \in pdf_conversations' \ pdf_conversations :
                                /\ pdf_conversations' = pdf_conversations \cup {c}
                                /\ c.processing_id = r.processing_id
                                /\ c.question = pevent'.question
                                /\ c.answer = pevent'.answer)]_vars

\* a question on the caller's own record that failed: answered 400
C15_Witness ==
    /\ pevent.action = "ask_question"
    /\ pevent.statusCode = 400
    /\ pevent.error = "Processing not completed"
    /\ \E r \in RecordsOf(pevent.processing_id, pevent.user) :
          r.processing_status = "failed"

\* C16: a process_pdf request of an identified caller, with file_id and
\* signed_url, the store being up, adds exactly one processing record, with the id the response names;
\* it is 'completed' with a summary or 'failed' with none, and the response
\* reports the status it holds.
C16_OutcomePersisted ==
    [][(/\ PdfServed("process_pdf")
        /\ pevent'.user # Null
        /\ pevent'.statusCode # 400
        /\ pevent'.db = DbUp) =>
          (\E r \in pdf_processing' \ pdf_processing :
             /\ pdf_processing' = pdf_processing \cup {r}
             /\ r.processing_id = pevent'.processing_id
             /\ r.user_id = pevent'.user
             /\ \/ r.processing_status = "completed" /\ r.pdf_summary # Null
                \/ r.processing_status = "failed" /\ r.pdf_summary = Null
             /\ pevent'.status = r.processing_status)]_vars

\* C17: ask_question and get_conversations are answered 200 only when a
\* record has the processing_id and the caller's user_id; on a record of
\* another user they are answered 404, send nothing to the AI service,
\* store no conversation row and return no question and no answer.
C17_PdfScoping ==
    [][(/\ PdfServed("ask_question") \/ PdfServed("get_conversations")
        /\ pevent'.processing_id # 0
        /\ pevent'.action = "ask_question" => Truthy(pevent'.question)) =>
          (/\ (pevent'.statusCode = 200) =>
                 (RecordsOf(pevent'.processing_id, pevent'.user) # {})
           /\ (/\ pevent'.db[1]
               /\ \E r \in pdf_processing :
                     /\ r.processing_id = pevent'.processing_id
                     /\ r.user_id # pevent'.user) =>
                 (/\ pevent'.statusCode = 404
                  /\ pevent'.ai_calls = 0
                  /\ pevent'.answer = Null
                  /\ pevent'.conversations = {}
                  /\ pdf_conversations' = pdf_conversations))]_vars

\* the conversations of another user's record, which has one, asked for
C17_Witness ==
    /\ pevent.action = "get_conversations"
    /\ pevent.statusCode = 404
    /\ pevent.conversations = {}
    /\ \E r \in pdf_processing :
          /\ r.processing_id = pevent.processing_id
          /\ r.user_id # pevent.user
          /\ \E c \in pdf_conversations : c.processing_id = r.processing_id

----------------------------------------------------------------------------
(* Properties of the request dispatchers                                   *)

\* the event of SpecApi has just been answered
Answered == aevent = NoEvent /\ aevent' # NoEvent

\* the actions that need a caller: all of the file and PDF handlers, and
\* get_projects
Guarded(e) == e.handler \in {"file", "pdf"} \/ e.action = "get_projects"

\* the tables and the bucket are as they were
StoresUnchanged ==
    UNCHANGED <<tables, projects, user_details, nextId,
                files_table, files, objects, nextFile,
                pdf_tables, pdf_processing, pdf_conversations, nextProc>>

\* the response to the event carries no row, no URL, no answer, no project
NothingReturned ==
    /\ (aevent'.handler = "file") => (fevent'.out.rows = {})
    /\ (aevent'.handler = "pdf") =>
          (/\ pevent'.ai_calls = 0
           /\ pevent'.answer = Null
           /\ pevent'.conversations = {})
    /\ aevent'.projects = {}

\* C18: an event of a guarded action whose request context holds no claims
\* (and no principalId) is answered 401 whatever x-user-id header and body
\* user_id it carries; no store changes and nothing is returned.
C18_IdentityFromContextOnly ==
    [][(/\ Answered
        /\ Guarded(aevent')
        /\ aevent'.claims = Null
        /\ aevent'.principal = Null) =>
          (/\ aevent'.statusCode = 401
           /\ StoresUnchanged
           /\ NothingReturned)]_vars

\* no source of the event holds a user id
NoIdentity(e) ==
    /\ ~Truthy(e.claims)
    /\ ~Truthy(e.principal)
    /\ ~Truthy(e.header)
    /\ ~Truthy(e.body_user)

Supported(handler) ==
    CASE handler = "file" -> FileActions
      [] handler = "pdf" -> PdfActions
      [] OTHER -> {"create_project", "get_projects"}

\* C20: an event whose claims name the caller, and whose action is missing
\* or unsupported or lacks a required field, is answered 400 and no store
\* changes.
C20_ValidationFirst ==
    [][(/\ Answered
        /\ Truthy(aevent'.claims)
        /\ \/ aevent'.action \notin Supported(aevent'.handler)
           \/ ~(FieldsOf(aevent'.action) \subseteq aevent'.fields)) =>
          (/\ aevent'.statusCode = 400
           /\ StoresUnchanged)]_vars

\* a delete without file_id, by the user whose file is stored
C20_Witness ==
    /\ aevent.handler = "file"
    /\ aevent.action = "delete"
    /\ aevent.fields = {}
    /\ aevent.claims = "u1"
    /\ aevent.statusCode = 400
    /\ \E f \in files : f.user_id = "u1"

\* C21: for a caller named by the claims, a get of a file_id that matches
\* no row of the caller is answered 404, and a list and a get_projects are
\* answered 200, in every state, the one where no table exists included.
C21_LazySchema ==
    [][(Answered /\ Truthy(aevent'.claims)) =>
          (/\ (/\ aevent'.handler = "file"
               /\ aevent'.action = "get"
               /\ "file_id" \in aevent'.fields
               /\ get_file_metadata(1, aevent'.claims) = {}) =>
                 (aevent'.statusCode = 404)
           /\ (aevent'.handler = "file" /\ aevent'.action = "list") =>
                 (aevent'.statusCode = 200)
           /\ (aevent'.handler = "projects" /\ aevent'.action = "get_projects") =>
                 (aevent'.statusCode = 200))]_vars

\* the status codes of the contract
StatusCodes == {200, 400, 401, 404, 413, 500}

\* the event is a request of a named caller that passes the checks made
\* before the first call to a service
Reaches(e) ==
    /\ Truthy(e.claims)
    /\ e.action \in Supported(e.handler)
    /\ FieldsOf(e.action) \subseteq e.fields

\* C22: whatever services fail during an event, the handler answers with
\* an envelope whose statusCode is one of the contract's; a 500 of the file
\* and PDF handlers carries an error; and a request that reaches a failing
\* service (any action with the store down, an upload with the bucket down,
\* a process_pdf with the AI service down) is answered 500.
C22_FailuresEnveloped ==
    [][Answered =>
          (/\ aevent'.statusCode \in StatusCodes
           /\ (aevent'.statusCode = 500 /\ aevent'.handler = "file") =>
                 (fevent'.out.error # Null)
           /\ (aevent'.statusCode = 500 /\ aevent'.handler = "pdf") =>
                 (pevent'.error # Null)
           /\ (/\ Reaches(aevent')
               /\ \/ ~afault'.db
                  \/ ~afault'.s3 /\ aevent'.action = "upload"
                  \/ ~afault'.ai /\ aevent'.action = "process_pdf") =>
                 (aevent'.statusCode = 500))]_vars

\* a create_project answered 500 while the store was down
C22_Witness ==
    /\ aevent.handler = "projects"
    /\ aevent.action = "create_project"
    /\ aevent.fields = {"user_id", "email"}
    /\ ~afault.db
    /\ aevent.statusCode = 500

\* the rows that hold the key of highest priority the request matches:
\* its subject, else its local_id, else its email
FirstMatch(ud, r) ==
    IF r.cognito_sub # Null /\ \E x \in ud : x.cognito_sub = r.cognito_sub
        THEN {x \in ud : x.cognito_sub = r.cognito_sub}
    ELSE IF \E x \in ud : x.user_id = r.user_id
        THEN {x \in ud : x.user_id = r.user_id}
    ELSE {x \in ud : x.email = r.email}

\* C23: a create_project that matches rows is answered with the
\* project_id of a row holding its subject, or else its local_id, or else
\* its email, and every row of another project is left as it was.
C23_ProbePriority ==
    [][(/\ now' # now
        /\ WellFormed(hist'[Len(hist')].req)
        /\ FirstMatch(user_details, hist'[Len(hist')].req) # {}) =>
          (\E x \in FirstMatch(user_details, hist'[Len(hist')].req) :
             /\ hist'[Len(hist')].out.statusCode = 200
             /\ hist'[Len(hist')].out.project_id = x.project_id
             /\ \A y \in user_details :
                   (y.project_id # x.project_id) => (y \in user_details'))]_vars

\* a call whose subject is held by one row and whose local_id by another
\* has been answered with the project of the first
C23_Witness ==
    /\ hist # <<>>
    /\ Last.out.statusCode = 200
    /\ \E x, y \in user_details :
          /\ x.project_id # y.project_id
          /\ x.cognito_sub = Last.req.cognito_sub
          /\ Last.req.cognito_sub # Null
          /\ x.project_id = Last.out.project_id
          /\ y.user_id = Last.req.user_id
          /\ y.last_login < x.last_login
          /\ y.cognito_sub = Null

\* C24: a create_project answered 200 names a project_id of a committed
\* Project row; and when, after a failed insert, the probe by user_id,
\* email or cognito_sub finds no row, the request is answered 500 and
\* stores nothing.
C24_NoFabricatedProject ==
    [][\A p \in Procs :
         /\ (result'[p].statusCode = 200) =>
               (result'[p].project_id \in projects')
         /\ (/\ pc[p] = "retry"
             /\ pc'[p] # "retry"
             /\ ByAnyKey(user_details, req[p]) = {}) =>
               (/\ result'[p].statusCode = 500
                /\ UNCHANGED <<projects, user_details>>)]_vars

\* a request has been answered 500 after its insert failed and no row
\* matched it
C24_Witness ==
    \E p \in Procs :
        /\ pc[p] = "idle"
        /\ ~Rejected(req[p])
        /\ req[p] # NoReq
        /\ result[p].statusCode = 500
        /\ ByAnyKey(user_details, req[p]) = {}

\* C25: an insert that fails leaves the Project table as it was, and in
\* every state each Project row is the project of some UserDetail row.
C25_NoOrphanProject ==
    [][/\ \A pid \in projects' : \E x \in user_details' : x.project_id = pid
       /\ \A p \in Procs :
             (pc[p] = "insert" /\ pc'[p] = "retry") => (projects' = projects)]_vars

\* a request is about to probe again, its insert having collided with the
\* row that holds its subject
C25_Witness ==
    \E p \in Procs :
        /\ pc[p] = "retry"
        /\ req[p].cognito_sub # Null
        /\ \E x \in user_details : x.cognito_sub = req[p].cognito_sub
        /\ \A pid \in projects : \E x \in user_details : x.project_id = pid

\* C26: a process_pdf or ask_question request sends at most one
\* generateContent request to the AI service; when that request fails no
\* other one follows and the response reports the failure.
C26_SingleAiRequest ==
    [][(PdfServed("process_pdf") \/ PdfServed("ask_question")) =>
          pevent'.ai_calls <= 1]_vars

FailedIds(rows) == {r.processing_id : r \in {x \in rows : x.processing_status = "failed"}}

\* C27: a process_pdf request writes one record, under an id no stored record
\* has, and leaves every other record as it was; a record stored as 'failed'
\* stays 'failed' through every request, and no ask_question on it is
\* answered 200 or adds a conversation row.
C27_FailureTerminal ==
    [][/\ \A r \in pdf_processing :
             r.processing_status = "failed" => r \in pdf_processing'
       /\ PdfServed("process_pdf") =>
             /\ pdf_processing \subseteq pdf_processing'
             /\ \A r \in pdf_processing' \ pdf_processing :
                   /\ r.processing_id = pevent'.processing_id
                   /\ \A x \in pdf_processing : x.processing_id # r.processing_id
             /\ Count(pdf_processing' \ pdf_processing) <= 1
       /\ (PdfServed("ask_question") /\ pevent'.processing_id \in FailedIds(pdf_processing)) =>
             /\ pevent'.statusCode \in {400, 404, 500}
             /\ pevent'.ai_calls = 0
             /\ pdf_conversations' = pdf_conversations]_vars

\* the owner has asked a question on a failed record and was refused, a
\* later process_pdf having completed under another id
C27_Witness ==
    /\ pevent.action = "ask_question"
    /\ pevent.question = "q1"
    /\ pevent.statusCode = 400
    /\ \E r \in pdf_processing :
          /\ r.processing_id = pevent.processing_id
          /\ r.user_id = pevent.user
          /\ r.processing_status = "failed"
          /\ \E x \in pdf_processing :
                /\ x.processing_id > r.processing_id
                /\ x.processing_status = "completed"

\* C28: the file_size of every File row is a non-negative integer, 0 until
\* a confirm of the row is served, whatever size the confirm carries.
C28_SizeNonNegative ==
    \A f \in files :
        /\ f.file_size \in Nat
        /\ f.upload_status = "pending" => f.file_size = 0

\* two requests for the same file_id by the same user
SameDelete(p, q) ==
    /\ p # q
    /\ dreq[p] = dreq[q]
    /\ dreq[p].file_id # 0

\* the DELETE of request p removed the row
Removed(dm, p) == dm[p] # <<>> /\ dm[p][1].deleted > 0

HalfDeleted(log) == {p \in Procs : \E e \in Issued(log, p) : ~e[3]}

\* C30: a delete whose object-store delete raises after its DELETE was
\* committed is answered 500 'Delete operation failed' with the row still
\* removed and the object still stored; from then on the row stays absent,
\* the object stays wherever it was, and every get, download and delete of
\* that file_id by its owner is answered 404.
C30_DeleteNotAtomic ==
    [][\A p \in HalfDeleted(s3log') :
         LET gone(rows) == \A f \in rows : ~(/\ f.file_id = dreq[p].file_id
                                              /\ f.user_id = dreq[p].user)
         IN  /\ gone(files')
             /\ dres'[p] = DeleteFailed
             /\ \A e \in Issued(s3log', p) : e[2] \in objects => e[2] \in objects'
             /\ (/\ fevent' # fevent
                 /\ fevent'.action \in {"get", "download"}
                 /\ fevent'.user = dreq[p].user
                 /\ fevent'.file_id = dreq[p].file_id) =>
                   fevent'.out = FileNotFound
             /\ \A q \in Procs \ {p} :
                   (/\ dpc[q] # "idle" /\ dpc'[q] = "idle"
                    /\ dreq[q] = dreq[p]) =>
                      (/\ dres'[q] = FileNotFound
                       /\ Issued(s3log', q) = {})]_vars

\* the object-store delete of one request failed on a stored object; the
\* owner's later download and delete of the file were answered 404
C30_Witness ==
    \E p, q \in Procs :
        /\ p \in HalfDeleted(s3log)
        /\ \A e \in Issued(s3log, p) : e[2] \in objects
        /\ dres[p] = DeleteFailed
        /\ q # p /\ dreq[q] = dreq[p] /\ dres[q] = FileNotFound
        /\ fevent.action = "download"
        /\ fevent.user = dreq[p].user
        /\ fevent.file_id = dreq[p].file_id
        /\ fevent.out = FileNotFound

====
